---- MODULE Spec2Model ----
(***************************************************************************)
(* A model of the Rubric validator: the rule extractor and the evaluator   *)
(* of src/rubric/rux-parser.js and the run loop of src/rubric/validate.js. *)
(*                                                                         *)
(* Strings the code inspects character by character (patterns, import      *)
(* paths) are sequences of one-character strings.  A violation message is  *)
(* the template literal of the code: its fixed text and the values         *)
(* interpolated into it, in order.                                         *)
(***************************************************************************)
EXTENDS Integers, Sequences, FiniteSets, TLC

VARIABLES
    mPattern, mCandidate, mResult,      \* one call of the denied-import test
    eRules, eTarget, eResult,           \* one call of validateFileAgainstRules
    tContent, tResult, tRules,          \* one specification text, parsed
    tAst, tExtracted,                   \* one Module AST, and its Rule Sets
    ruxFiles, disk,                     \* the files a run finds
    pc, ci, heap, baseRules, rulesRef,  \* run(): position and Rule Sets
    violations, syntaxErrors,           \* the validator's accumulators
    checkedFiles, ruxFilesProcessed, exitCode

matchVars == <<mPattern, mCandidate, mResult>>
evalVars  == <<eRules, eTarget, eResult>>
textVars  == <<tContent, tResult, tRules, tAst, tExtracted>>
runVars   == <<ruxFiles, disk, pc, ci, heap, baseRules, rulesRef, violations,
               syntaxErrors, checkedFiles, ruxFilesProcessed, exitCode>>
vars      == <<mPattern, mCandidate, mResult, eRules, eTarget, eResult,
               tContent, tResult, tRules, tAst, tExtracted,
               ruxFiles, disk, pc, ci, heap, baseRules, rulesRef, violations,
               syntaxErrors, checkedFiles, ruxFilesProcessed, exitCode>>

Null == [null |-> TRUE]

-----------------------------------------------------------------------------
(* Bounds of the model.                                                    *)

MaxPatLen  == 3
MaxCandLen == 3

-----------------------------------------------------------------------------
(* String helpers: String.prototype.startsWith / includes.                 *)

StartsWith(s, prefix) ==
    /\ Len(prefix) <= Len(s)
    /\ SubSeq(s, 1, Len(prefix)) = prefix

Includes(s, sub) ==
    \E i \in 0..(Len(s) - Len(sub)) : SubSeq(s, i + 1, i + Len(sub)) = sub

SeqsUpTo(S, n) == UNION {[1..k -> S] : k \in 0..n}

\* The concatenation of a sequence of sequences (by halves).
RECURSIVE Flatten(_)
Flatten(ss) ==
    IF Len(ss) = 0 THEN <<>>
    ELSE IF Len(ss) = 1 THEN ss[1]
    ELSE LET m == Len(ss) \div 2
         IN Flatten(SubSeq(ss, 1, m)) \o Flatten(SubSeq(ss, m + 1, Len(ss)))

-----------------------------------------------------------------------------
(* The denied-import test: new RegExp(p.replace(/\*/g, '.*')).test(path).  *)
(* Regular-expression syntax is modelled for the characters of the         *)
(* model's universe: '.', '*', '+' and '(' are syntax, every other         *)
(* character of the universe stands for itself.  The universe holds no     *)
(* ')', so a '(' is always an unterminated group.                          *)

\* p.replace(/\*/g, '.*')
ReplaceStar(p) ==
    Flatten([i \in 1..Len(p) |-> IF p[i] = "*" THEN <<".", "*">> ELSE <<p[i]>>])

RegExpSyntaxError == [threw |-> TRUE, atoms |-> <<>>]

\* new RegExp(src): the atoms with their quantifiers, or a SyntaxError.
RegExp(src) ==
    LET RECURSIVE Go(_, _)
        Go(i, acc) ==
            IF i > Len(src) THEN [threw |-> FALSE, atoms |-> acc]
            ELSE IF src[i] = "(" THEN RegExpSyntaxError
            ELSE IF src[i] \in {"*", "+"} THEN
                IF acc = <<>> \/ acc[Len(acc)].q # "1"
                THEN RegExpSyntaxError    \* nothing to repeat
                ELSE Go(i + 1, [acc EXCEPT ![Len(acc)].q = src[i]])
            ELSE Go(i + 1, Append(acc, [ch |-> src[i], q |-> "1"]))
    IN Go(1, <<>>)

\* The positions of s an atom can end at, having started at one of P.
AtomStep(P, atom, s) ==
    LET ok(j)  == atom.ch = "." \/ s[j] = atom.ch
        one(Q) == {p + 1 : p \in {q \in Q : q < Len(s) /\ ok(q + 1)}}
        run(Q) == {e \in 0..Len(s) :
                     \E p \in Q : p <= e /\ \A j \in (p + 1)..e : ok(j)}
    IN CASE atom.q = "1" -> one(P)
         [] atom.q = "*" -> run(P)
         [] atom.q = "+" -> run(one(P))

\* regex.test(s): unanchored, a match may start and end anywhere in s.
RegExpTest(atoms, s) ==
    LET RECURSIVE Go(_, _)
        Go(k, P) == IF k > Len(atoms) THEN P
                    ELSE Go(k + 1, AtomStep(P, atoms[k], s))
    IN Go(1, 0..Len(s)) # {}

\* The test both evaluators apply to (deniedPattern, importPath):
\* "throws" when the RegExp constructor raises, else the boolean of test().
DeniedImportTest(deniedPattern, importPath) ==
    LET regex == RegExp(ReplaceStar(deniedPattern))
    IN IF regex.threw THEN "throws"
       ELSE IF RegExpTest(regex.atoms, importPath) THEN "true" ELSE "false"

-----------------------------------------------------------------------------
(* String literals of the code, and the strings of the scenarios.          *)

S_io_console     == <<"i","o",".","c","o","n","s","o","l","e">>
S_io_dot         == <<"i","o",".">>
S_pattern_dot    == <<"p","a","t","t","e","r","n",".">>
S_console        == <<"c","o","n","s","o","l","e">>
S_localStorage   == <<"l","o","c","a","l","S","t","o","r","a","g","e">>
S_io_star        == <<"i","o",".","*">>
S_exports        == <<"e","x","p","o","r","t","s">>
S_file_lines     == <<"f","i","l","e",".","l","i","n","e","s">>
S_accessibility  == <<"p","a","t","t","e","r","n",".","a","c","c","e","s","s",
                      "i","b","i","l","i","t","y">>
S_underscore_star == <<"_","*">>
S_aria           == <<"a","r","i","a","-">>

P_io_console_star == <<"i","o",".","c","o","n","s","o","l","e",".","*">>
P_io_network_star == <<"i","o",".","n","e","t","w","o","r","k",".","*">>
P_mutations       == <<"p","a","t","t","e","r","n",".","m","u","t","a","t",
                       "i","o","n","s">>
P_services_star   == <<".",".","/","s","e","r","v","i","c","e","s","/","*">>
P_services_user   == <<".",".","/","s","e","r","v","i","c","e","s","/","u",
                       "s","e","r">>
P_service         == <<".",".","/","s","e","r","v","i","c","e">>
P_react           == <<"r","e","a","c","t">>
P_react_dom       == <<"r","e","a","c","t","-","d","o","m">>
P_lodash_star     == <<"l","o","d","a","s","h","*">>
P_lodash_fp       == <<"l","o","d","a","s","h",".","f","p">>
P_cpp             == <<"c","+","+">>
P_aria_label      == <<"a","r","i","a","-","l","a","b","e","l">>
P_xlink_href      == <<"x","l","i","n","k",":","h","r","e","f">>
P_id              == <<"i","d">>

-----------------------------------------------------------------------------
(* The target file.  A target is the text of a source file, one record per *)
(* line; a line's kind stands for its text:                                *)
(*   other         const x = 1;                                            *)
(*   console       console.log("x");        (calls: statements on the line)*)
(*   import        import x from "<path>";                                 *)
(*   fetch         fetch("/api");                                          *)
(*   mutation      items.push(x);                                          *)
(*   localStorage  localStorage.getItem("k");                              *)
(*   alert         alert("x");                                             *)
(*   export        export const _x = 1;     (underscore: name has a '_')   *)
(*   jsx           <name attr="x" />;       (attrs: the attribute names)   *)
(*   bad           const = ;                (a syntax error)               *)
(*   empty         the empty string after a final line break              *)

OtherLine           == [kind |-> "other"]
ConsoleLine(n)      == [kind |-> "console", calls |-> n]
ImportLine(p)       == [kind |-> "import", path |-> p]
FetchLine           == [kind |-> "fetch"]
MutationLine        == [kind |-> "mutation"]
LocalStorageLine    == [kind |-> "localStorage"]
AlertLine           == [kind |-> "alert"]
ExportLine(u)       == [kind |-> "export", underscore |-> u]
JsxLine(name, as)   == [kind |-> "jsx", name |-> name, attrs |-> as]
BadLine             == [kind |-> "bad"]
EmptyLine           == [kind |-> "empty"]

MissingFile == [exists |-> FALSE, text |-> <<>>, eofNewline |-> FALSE]
File(text, nl) == [exists |-> TRUE, text |-> text, eofNewline |-> nl]

\* content.split('\n')
SplitLines(target) ==
    IF target.eofNewline THEN Append(target.text, EmptyLine) ELSE target.text

\* The syntax tree typescript-estree returns: a node has its type, its
\* start line, the properties the visitors read, and kids, the child nodes
\* in property order (what traverse's for-in loop meets).
Identifier(name, n) ==
    [type |-> "Identifier", name |-> name, line |-> n, kids |-> <<>>]
Literal(n) == [type |-> "Literal", line |-> n, kids |-> <<>>]
MemberExpression(object, n) ==
    [type |-> "MemberExpression", object |-> object, line |-> n,
     kids |-> <<object, Identifier("property", n)>>]
CallExpression(callee, n) ==
    [type |-> "CallExpression", callee |-> callee, line |-> n,
     kids |-> <<callee, Literal(n)>>]
ExpressionStatement(e, n) ==
    [type |-> "ExpressionStatement", line |-> n, kids |-> <<e>>]
MemberCall(objectName, n) ==
    ExpressionStatement(
        CallExpression(MemberExpression(Identifier(objectName, n), n), n), n)
PlainCall(name, n) ==
    ExpressionStatement(CallExpression(Identifier(name, n), n), n)
ImportDeclaration(path, n) ==
    [type |-> "ImportDeclaration", source |-> [value |-> path], line |-> n,
     kids |-> <<Literal(n)>>]
\* The name node of an attribute: a JSXIdentifier whose name is the string,
\* or, for ns:local, a JSXNamespacedName whose name is a JSXIdentifier.
IsNamespaced(a) == \E k \in 1..Len(a) : a[k] = ":"
JSXAttributeName(a) ==
    IF IsNamespaced(a)
    THEN LET colon == CHOOSE k \in 1..Len(a) :
                         a[k] = ":" /\ \A j \in 1..(k - 1) : a[j] # ":"
         IN [type |-> "JSXNamespacedName",
             namespace |-> [type |-> "JSXIdentifier",
                            name |-> SubSeq(a, 1, colon - 1)],
             name |-> [type |-> "JSXIdentifier",
                       name |-> SubSeq(a, colon + 1, Len(a))]]
    ELSE [type |-> "JSXIdentifier", name |-> a]
JSXOpeningElement(name, as, n) ==
    [type |-> "JSXOpeningElement", name |-> [name |-> name], line |-> n,
     attributes |-> [i \in 1..Len(as) |->
                       [type |-> "JSXAttribute", name |-> JSXAttributeName(as[i])]],
     kids |-> <<>>]
JSXElement(name, as, n) ==
    ExpressionStatement(
        [type |-> "JSXElement", line |-> n,
         kids |-> <<JSXOpeningElement(name, as, n)>>], n)

\* The statements of one line, at line number n.
LineNodes(l, n) ==
    CASE l.kind = "console"      -> [i \in 1..l.calls |-> MemberCall("console", n)]
      [] l.kind = "import"       -> <<ImportDeclaration(l.path, n)>>
      [] l.kind = "fetch"        -> <<PlainCall("fetch", n)>>
      [] l.kind = "mutation"     -> <<MemberCall("items", n)>>
      [] l.kind = "localStorage" -> <<MemberCall("localStorage", n)>>
      [] l.kind = "alert"        -> <<PlainCall("alert", n)>>
      [] l.kind = "jsx"          -> <<JSXElement(l.name, l.attrs, n)>>
      [] l.kind = "export"       ->
           <<[type |-> "ExportNamedDeclaration", line |-> n, kids |-> <<>>]>>
      [] l.kind = "other"        ->
           <<[type |-> "VariableDeclaration", line |-> n, kids |-> <<>>]>>
      [] OTHER                   -> <<>>

\* parse(content, {...}) of typescript-estree: throws on a syntax error.
parse(lines) ==
    IF \E i \in 1..Len(lines) : lines[i].kind = "bad"
    THEN [threw |-> TRUE]
    ELSE [threw |-> FALSE,
          ast |-> [type |-> "Program", line |-> 1,
                   kids |-> Flatten([i \in 1..Len(lines) |->
                                       LineNodes(lines[i], i)])]]

-----------------------------------------------------------------------------
(* The Module AST of the grammar and the Rule Extractor.                   *)

\* The nodes of simplified-rux.pegjs the extractor reads.
TypeDeclaration(v)     == [type |-> "TypeDeclaration", value |-> v]
LocationDeclaration(v) == [type |-> "LocationDeclaration", value |-> v]
AllowRule(path, exc)   ==
    [type |-> "AllowRule", path |-> path, alias |-> Null, exceptions |-> exc]
DenyRule(pats, exc)    ==
    [type |-> "DenyRule", patterns |-> pats, exceptions |-> exc]
ImportsBlock(rs)       == [type |-> "Imports", rules |-> rs]
ConstraintRule(t, pat, cmp, exc) ==
    [type |-> t, pattern |-> pat, comparison |-> cmp, comment |-> Null,
     exceptions |-> exc]
AnnotationNode         == [type |-> "Annotation"]
ConstraintsBlock(rs)   == [type |-> "Constraints", rules |-> rs]
ModuleNode(name, body) == [type |-> "Module", name |-> name, body |-> body]

EmptyRules ==
    [moduleName |-> "", type |-> "", location |-> "",
     allowedImports |-> <<>>, deniedImports |-> <<>>,
     deniedOperations |-> <<>>,
     constraints |-> [require |-> <<>>, deny |-> <<>>, warn |-> <<>>],
     interface |-> <<>>, state |-> <<>>]

processImports(importsNode, rules) ==
    LET RECURSIVE Go(_, _)
        Go(i, r) ==
            IF i > Len(importsNode.rules) THEN r
            ELSE LET rule == importsNode.rules[i] IN
                 IF rule.type = "AllowRule"
                 THEN Go(i + 1, [r EXCEPT !.allowedImports =
                        Append(@, [path |-> rule.path, alias |-> rule.alias,
                                   exceptions |-> rule.exceptions])])
                 ELSE IF rule.type = "DenyRule"
                 THEN Go(i + 1, [r EXCEPT !.deniedImports = @ \o rule.patterns])
                 ELSE Go(i + 1, r)
    IN Go(1, rules)

\* A processConstraints that copies the pattern of every deny constraint
\* into deniedOperations, whatever its prefix.
processConstraintsEveryDeny(constraintsNode, rules) ==
    LET RECURSIVE Go(_, _)
        Go(i, r) ==
            IF i > Len(constraintsNode.rules) THEN r
            ELSE LET rule == constraintsNode.rules[i]
                     constraintData ==
                         [pattern |-> rule.pattern,
                          comparison |-> rule.comparison,
                          comment |-> rule.comment,
                          exceptions |-> rule.exceptions]
                 IN
                 IF rule.type = "RequireRule"
                 THEN Go(i + 1, [r EXCEPT !.constraints.require =
                                    Append(@, constraintData)])
                 ELSE IF rule.type = "DenyConstraintRule"
                 THEN Go(i + 1,
                        [r EXCEPT !.constraints.deny = Append(@, constraintData),
                                  !.deniedOperations = Append(@, rule.pattern)])
                 ELSE IF rule.type = "WarnRule"
                 THEN Go(i + 1, [r EXCEPT !.constraints.warn =
                                    Append(@, constraintData)])
                 ELSE Go(i + 1, r)
    IN Go(1, rules)

processConstraints(constraintsNode, rules) ==
    LET RECURSIVE Go(_, _)
        Go(i, r) ==
            IF i > Len(constraintsNode.rules) THEN r
            ELSE LET rule == constraintsNode.rules[i]
                     constraintData ==
                         [pattern |-> rule.pattern,
                          comparison |-> rule.comparison,
                          comment |-> rule.comment,
                          exceptions |-> rule.exceptions]
                 IN
                 IF rule.type = "Annotation" THEN Go(i + 1, r)
                 ELSE IF rule.type = "RequireRule"
                 THEN Go(i + 1, [r EXCEPT !.constraints.require =
                                    Append(@, constraintData)])
                 ELSE IF rule.type = "DenyConstraintRule"
                 THEN Go(i + 1,
                        [r EXCEPT !.constraints.deny = Append(@, constraintData),
                                  !.deniedOperations =
                                      IF \/ StartsWith(rule.pattern, S_io_dot)
                                         \/ StartsWith(rule.pattern, S_pattern_dot)
                                      THEN Append(@, rule.pattern) ELSE @])
                 ELSE IF rule.type = "WarnRule"
                 THEN Go(i + 1, [r EXCEPT !.constraints.warn =
                                    Append(@, constraintData)])
                 ELSE IF rule.type = "DenyExportsRule"
                 THEN Go(i + 1, [r EXCEPT !.constraints.deny =
                        Append(@, [pattern |-> S_exports,
                                   patterns |-> rule.patterns,
                                   exceptions |-> rule.exceptions])])
                 ELSE IF rule.type = "DenyImportsRule"
                 THEN Go(i + 1, [r EXCEPT !.deniedImports = @ \o rule.patterns])
                 ELSE Go(i + 1, r)
    IN Go(1, rules)

extractRulesFromAST(ast) ==
    LET RECURSIVE Go(_, _)
        Go(i, r) ==
            IF i > Len(ast.body) THEN r
            ELSE LET item == ast.body[i] IN
                 CASE item.type = "TypeDeclaration" ->
                          Go(i + 1, [r EXCEPT !.type = item.value])
                   [] item.type = "LocationDeclaration" ->
                          Go(i + 1, [r EXCEPT !.location = item.value])
                   [] item.type = "Imports" ->
                          Go(i + 1, processImports(item, r))
                   [] item.type = "Constraints" ->
                          Go(i + 1, processConstraints(item, r))
                   [] item.type = "Interface" ->
                          Go(i + 1, [r EXCEPT !.interface = item.members])
                   [] item.type = "State" ->
                          Go(i + 1, [r EXCEPT !.state = item.members])
                   [] OTHER -> Go(i + 1, r)
    IN Go(1, [EmptyRules EXCEPT !.moduleName = ast.name])

-----------------------------------------------------------------------------
(* Specification text.  The text of a .rux file is a sequence of one-       *)
(* character strings.  Chars turns a string literal of the code into that   *)
(* form and Str turns a captured piece of text back into a string.          *)
(*                                                                          *)
(* A value that is used more than once is bound by a quantifier over a      *)
(* singleton set, Once({ e : x \in {v} }), so that it is computed once.     *)

Once(S) == CHOOSE v \in S : TRUE

Chars(str) == [i \in 1..Len(str) |-> SubSeq(str, i, i)]

RECURSIVE StrFrom(_, _)
StrFrom(cs, i) ==
    IF i > Len(cs) THEN "" ELSE Once({cs[j - 1] \o StrFrom(cs, j) : j \in {i + 1}})
Str(cs) == Once({StrFrom(v, 1) : v \in {cs}})

CharSet(str) == {SubSeq(str, i, i) : i \in 1..Len(str)}

Least(S)    == CHOOSE x \in S : \A y \in S : x <= y
Greatest(S) == CHOOSE x \in S : \A y \in S : x >= y

\* The elements of a set of numbers, ascending.
SortedSeq(S) ==
    [i \in 1..Cardinality(S) |->
        CHOOSE v \in S : Cardinality({w \in S : w < v}) = i - 1]

\* The places (counted from 1) where sub occurs in s.
Occurrences(s, sub) ==
    {i \in 1..(Len(s) - Len(sub) + 1) : SubSeq(s, i, i + Len(sub) - 1) = sub}

\* String.prototype.indexOf / lastIndexOf, plus one: 0 when absent.
IndexOf(s, sub) ==
    Once({IF hits = {} THEN 0 ELSE Least(hits) : hits \in {Occurrences(s, sub)}})
LastIndexOf(s, sub) ==
    Once({IF hits = {} THEN 0 ELSE Greatest(hits) : hits \in {Occurrences(s, sub)}})

\* String.prototype.split on a one-character separator.
Split(s, sep) ==
    Once({[k \in 1..(Len(cuts) + 1) |->
             SubSeq(s, IF k = 1 THEN 1 ELSE cuts[k - 1] + 1,
                       IF k = Len(cuts) + 1 THEN Len(s) ELSE cuts[k] - 1)] :
          cuts \in {Once({SortedSeq(at) : at \in {{i \in 1..Len(s) : s[i] = sep}}})}})

\* Array.prototype.join on a one-character separator.
RECURSIVE JoinFrom(_, _, _)
JoinFrom(parts, sep, i) ==
    IF i > Len(parts) THEN <<>>
    ELSE IF i = Len(parts) THEN parts[i]
    ELSE Once({parts[j - 1] \o <<sep>> \o JoinFrom(parts, sep, j) : j \in {i + 1}})
Join(parts, sep) == Once({JoinFrom(v, sep, 1) : v \in {parts}})

WhiteSpaceChars == {" ", "\t", "\n", "\r"}
WordChars ==
    CharSet("abcdefghijklmnopqrstuvwxyzABCDEFGHIJKLMNOPQRSTUVWXYZ0123456789_")
Digits == CharSet("0123456789")

\* String.prototype.trim
Trim(s) ==
    Once({IF ink = {} THEN <<>> ELSE SubSeq(s, Least(ink), Greatest(ink)) :
          ink \in {{i \in 1..Len(s) : s[i] \notin WhiteSpaceChars}}})

-----------------------------------------------------------------------------
(* The strict parser: simplified-rux.pegjs, rule by rule, over tokens.      *)
(* The texts of the model delimit keywords, values and the punctuation      *)
(* { } [ ] , @ by white space or by that punctuation, hold no white space   *)
(* or punctuation inside a quoted string, no bracket part in a pattern, no  *)
(* block comment, and no well-formed member of an interface or state block. *)
(* A token is the text of one terminal; NL marks a line terminator, which   *)
(* the rule _ skips and which ends an annotation, a // comment and a --     *)
(* comment.                                                                 *)

IdStartChars ==
    CharSet("abcdefghijklmnopqrstuvwxyzABCDEFGHIJKLMNOPQRSTUVWXYZ_$")
IdChars == IdStartChars \cup Digits
Punctuation == {"{", "}", "[", "]", ",", "@"}
NL == <<"\n">>

\* The tokens of a piece of text that holds no white space.
Pieces(piece) ==
    Once({[k \in 1..Len(starts) |->
             SubSeq(piece, starts[k],
                    IF k = Len(starts) THEN Len(piece) ELSE starts[k + 1] - 1)] :
          starts \in {Once({SortedSeq(at) :
                        at \in {{i \in 1..Len(piece) :
                                   \/ i = 1
                                   \/ piece[i] \in Punctuation
                                   \/ piece[i - 1] \in Punctuation}}})}})

\* The tokens from a // comment on, unless an annotation's text holds it:
\* WhiteSpace "//" (!LineTerminator .)*
CommentCut(toks) ==
    {k \in 1..Len(toks) :
        /\ StartsWith(toks[k], <<"/", "/">>)
        /\ \A a \in 1..k : toks[a] # <<"@">>}

\* The tokens of a line.
LineTokens(line) ==
    Once({Once({IF cut = {} THEN toks ELSE SubSeq(toks, 1, Least(cut) - 1) :
                cut \in {CommentCut(toks)}}) :
          toks \in {Once({Flatten([k \in 1..Len(words) |-> Pieces(words[k])]) :
                      words \in {SelectSeq(Split(line, " "),
                                           LAMBDA w : w # <<>>)}})}})

Tokens(content) ==
    Once({Flatten([i \in 1..Len(lines) |-> LineTokens(lines[i]) \o <<NL>>]) :
          lines \in {Split(content, "\n")}})

Tok(ts, p) == IF p <= Len(ts) THEN ts[p] ELSE <<>>

\* _ = WhiteSpace*
RECURSIVE Skip(_, _)
Skip(ts, p) ==
    IF p <= Len(ts) /\ ts[p] = NL THEN Once({Skip(ts, q) : q \in {p + 1}}) ELSE p

\* The end of the line that holds token p.
RECURSIVE LineEnd(_, _)
LineEnd(ts, p) ==
    IF p <= Len(ts) /\ ts[p] # NL THEN Once({LineEnd(ts, q) : q \in {p + 1}}) ELSE p

Fail == [ok |-> FALSE]
Ok(pos, node) == [ok |-> TRUE, pos |-> pos, node |-> node]

\* Identifier = [a-zA-Z_$] [a-zA-Z0-9_$]*
IsIdentifier(t) ==
    /\ t # <<>> /\ t[1] \in IdStartChars
    /\ \A i \in 1..Len(t) : t[i] \in IdChars

\* QuotedString: '"' chars '"' or "'" chars "'", no escapes in the model.
IsQuotedString(t) ==
    /\ Len(t) >= 2 /\ t[1] \in {"\"", "'"} /\ t[Len(t)] = t[1]
    /\ \A i \in 2..(Len(t) - 1) : t[i] \notin {t[1], "\\"}
Unquote(t) == SubSeq(t, 2, Len(t) - 1)

\* Pattern = (Identifier / "." / "*" / "?")+
IsPattern(t) ==
    /\ t # <<>>
    /\ \A i \in 1..Len(t) :
          \/ t[i] \in IdStartChars \cup {".", "*", "?"}
          \/ t[i] \in Digits /\ i > 1 /\ t[i - 1] \in IdChars

\* DottedPath = Identifier ("." Identifier)*
IsDottedPath(t) ==
    /\ t # <<>> /\ t[1] \in IdStartChars /\ t[Len(t)] # "."
    /\ \A i \in 1..Len(t) :
          \/ t[i] \in IdChars
          \/ t[i] = "." /\ i < Len(t) /\ t[i + 1] \in IdStartChars

\* Number = [0-9]+, and parseInt(digits, 10)
IsNumber(t) == t # <<>> /\ \A i \in 1..Len(t) : t[i] \in Digits
DigitValue(c) == CHOOSE d \in 0..9 : SubSeq("0123456789", d + 1, d + 1) = c
RECURSIVE ParseIntTo(_, _)
ParseIntTo(t, n) ==
    IF n = 0 THEN 0
    ELSE Once({10 * ParseIntTo(t, m) + DigitValue(t[m + 1]) : m \in {n - 1}})
ParseInt(t) == ParseIntTo(t, Len(t))

\* Annotation = "@" _ AnnotationText, the text ending at a line terminator
\* or at the next "@".
RECURSIVE AnnotationEnd(_, _)
AnnotationEnd(ts, p) ==
    IF p <= Len(ts) /\ ts[p] \notin {NL, <<"@">>}
    THEN Once({AnnotationEnd(ts, q) : q \in {p + 1}}) ELSE p
ParseAnnotation(ts, p) ==
    IF Tok(ts, p) # <<"@">> THEN Fail
    ELSE Once({Ok(AnnotationEnd(ts, q), AnnotationNode) : q \in {Skip(ts, p + 1)}})

\* "type:" / "location:" / "version:" _ QuotedString
DeclarationNode(key, value) ==
    CASE key = Chars("type:")     -> TypeDeclaration(value)
      [] key = Chars("location:") -> LocationDeclaration(value)
      [] key = Chars("version:")  -> [type |-> "VersionDeclaration", value |-> value]
ParseDeclaration(ts, p) ==
    IF Tok(ts, p) \notin {Chars("type:"), Chars("location:"), Chars("version:")}
    THEN Fail
    ELSE Once({IF ~IsQuotedString(Tok(ts, v)) THEN Fail
               ELSE Ok(v + 1, DeclarationNode(ts[p], Str(Unquote(ts[v])))) :
               v \in {Skip(ts, p + 1)}})

\* PatternList = Pattern (_ "," _ Pattern)*
RECURSIVE PatternListRest(_, _, _)
PatternListRest(ts, q, acc) ==
    Once({IF Tok(ts, c) # <<",">> THEN Ok(q, acc)
          ELSE Once({IF IsPattern(Tok(ts, n))
                     THEN Once({PatternListRest(ts, n + 1, more) :
                                more \in {Append(acc, ts[n])}})
                     ELSE Ok(q, acc) :
                     n \in {Skip(ts, c + 1)}}) :
          c \in {Skip(ts, q)}})
ParsePatternList(ts, p) ==
    IF IsPattern(Tok(ts, p)) THEN PatternListRest(ts, p + 1, <<ts[p]>>) ELSE Fail

\* "[" _ PatternList _ "]", from the token after the bracket
ParseBracketed(ts, b) ==
    IF Tok(ts, b) # <<"[">> THEN Fail
    ELSE Once({IF ~pl.ok THEN Fail
               ELSE Once({IF Tok(ts, e) = <<"]">> THEN Ok(e + 1, pl.node)
                          ELSE Fail :
                          e \in {Skip(ts, pl.pos)}}) :
               pl \in {Once({ParsePatternList(ts, f) : f \in {Skip(ts, b + 1)}})}})

\* ("except:" _ "[" _ PatternList _ "]")?
ParseExceptions(ts, p) ==
    IF Tok(ts, p) # Chars("except:") THEN Ok(p, <<>>)
    ELSE Once({IF br.ok THEN br ELSE Ok(p, <<>>) :
               br \in {Once({ParseBracketed(ts, b) : b \in {Skip(ts, p + 1)}})}})

\* IdentifierList = Identifier (_ "," _ Identifier)*
RECURSIVE IdentifierListRest(_, _, _)
IdentifierListRest(ts, q, acc) ==
    Once({IF Tok(ts, c) # <<",">> THEN Ok(q, acc)
          ELSE Once({IF IsIdentifier(Tok(ts, n))
                     THEN Once({IdentifierListRest(ts, n + 1, more) :
                                more \in {Append(acc, Str(ts[n]))}})
                     ELSE Ok(q, acc) :
                     n \in {Skip(ts, c + 1)}}) :
          c \in {Skip(ts, q)}})
ParseIdentifierList(ts, p) ==
    IF IsIdentifier(Tok(ts, p))
    THEN Once({IdentifierListRest(ts, p + 1, first) : first \in {<<Str(ts[p])>>}})
    ELSE Fail

\* ImportAlias = "external" / "{" _ IdentifierList _ "}" / Identifier
ParseImportAlias(ts, b) ==
    IF Tok(ts, b) = Chars("external") THEN Ok(b + 1, [type |-> "external"])
    ELSE IF Tok(ts, b) = <<"{">>
    THEN Once({IF ~names.ok THEN Fail
               ELSE Once({IF Tok(ts, e) = <<"}">>
                          THEN Ok(e + 1, [type |-> "named", names |-> names.node])
                          ELSE Fail :
                          e \in {Skip(ts, names.pos)}}) :
               names \in {Once({ParseIdentifierList(ts, f) :
                                f \in {Skip(ts, b + 1)}})}})
    ELSE IF IsIdentifier(Tok(ts, b))
    THEN Ok(b + 1, [type |-> "default", name |-> Str(ts[b])])
    ELSE Fail

\* (_ "as" _ ImportAlias)?
ParseAlias(ts, p) ==
    Once({IF Tok(ts, a) # Chars("as") THEN Ok(p, Null)
          ELSE Once({IF alias.ok THEN alias ELSE Ok(p, Null) :
                     alias \in {Once({ParseImportAlias(ts, b) :
                                      b \in {Skip(ts, a + 1)}})}}) :
          a \in {Skip(ts, p)}})

\* AllowRule = "allow" _ ImportPath _ alias? _ exceptions?
\* ImportPath = QuotedString / DottedPath
ParseAllowRule(ts, p) ==
    IF Tok(ts, p) # Chars("allow") THEN Fail
    ELSE Once({
        IF ~(IsQuotedString(Tok(ts, q)) \/ IsDottedPath(Tok(ts, q))) THEN Fail
        ELSE Once({
            Once({Ok(exc.pos,
                     [AllowRule(IF IsQuotedString(ts[q]) THEN Unquote(ts[q])
                                ELSE ts[q], exc.node)
                         EXCEPT !.alias = alias.node]) :
                  exc \in {Once({ParseExceptions(ts, x) :
                                 x \in {Skip(ts, alias.pos)}})}}) :
            alias \in {ParseAlias(ts, q + 1)}}) :
        q \in {Skip(ts, p + 1)}})

\* DenyRule = "deny" _ "imports" _ "[" _ PatternList _ "]" _ exceptions?
ParseDenyRule(ts, p) ==
    IF Tok(ts, p) # Chars("deny") THEN Fail
    ELSE Once({
        IF Tok(ts, i) # Chars("imports") THEN Fail
        ELSE Once({
            IF ~br.ok THEN Fail
            ELSE Once({Ok(exc.pos, DenyRule(br.node, exc.node)) :
                       exc \in {Once({ParseExceptions(ts, x) :
                                      x \in {Skip(ts, br.pos)}})}}) :
            br \in {Once({ParseBracketed(ts, b) : b \in {Skip(ts, i + 1)}})}}) :
        i \in {Skip(ts, p + 1)}})

\* ImportRule = AllowRule / DenyRule
ParseImportRule(ts, p) ==
    Once({IF allow.ok THEN allow ELSE ParseDenyRule(ts, p) :
          allow \in {ParseAllowRule(ts, p)}})

\* ImportRules = (_ ImportRule _)*
RECURSIVE ParseImportRules(_, _, _)
ParseImportRules(ts, q, acc) ==
    Once({IF ~rule.ok THEN Ok(q, acc)
          ELSE Once({ParseImportRules(ts, rule.pos, more) :
                     more \in {Append(acc, rule.node)}}) :
          rule \in {Once({ParseImportRule(ts, s) : s \in {Skip(ts, q)}})}})

\* Comparison = (">=" / "<=" / ">" / "<" / "==") _ (Number / QuotedString)
ComparisonOperators ==
    {Chars(">="), Chars("<="), Chars(">"), Chars("<"), Chars("==")}
ParseComparison(ts, p) ==
    IF Tok(ts, p) \notin ComparisonOperators THEN Ok(p, Null)
    ELSE Once({IF IsNumber(Tok(ts, v))
               THEN Ok(v + 1, [op |-> Str(ts[p]), value |-> ParseInt(ts[v])])
               ELSE IF IsQuotedString(Tok(ts, v))
               THEN Ok(v + 1, [op |-> Str(ts[p]), value |-> Str(Unquote(ts[v]))])
               ELSE Ok(p, Null) :
               v \in {Skip(ts, p + 1)}})

\* Comment = "--" _ CommentText, the words of the text one space apart
CommentFrom(ts, q) ==
    Once({Ok(e, Str(Join(SubSeq(ts, q, e - 1), " "))) : e \in {LineEnd(ts, q)}})
ParseComment(ts, p) ==
    IF Tok(ts, p) = <<"-", "-">>
    THEN Once({CommentFrom(ts, q) : q \in {Skip(ts, p + 1)}})
    ELSE IF StartsWith(Tok(ts, p), <<"-", "-">>)
    THEN Once({Ok(c.pos, Str(SubSeq(Chars(c.node), 3, Len(c.node)))) :
               c \in {CommentFrom(ts, p)}})
    ELSE Ok(p, Null)

\* DenyConstraintRule / RequireRule / WarnRule =
\*   keyword _ Pattern _ Comparison? _ Comment? _ exceptions?
ConstraintRuleType(keyword) ==
    CASE keyword = Chars("deny")    -> "DenyConstraintRule"
      [] keyword = Chars("require") -> "RequireRule"
      [] keyword = Chars("warn")    -> "WarnRule"
ParseConstraintRule(ts, p) ==
    IF Tok(ts, p) \notin {Chars("deny"), Chars("require"), Chars("warn")}
    THEN Fail
    ELSE Once({
        IF ~IsPattern(Tok(ts, q)) THEN Fail
        ELSE Once({
            Once({
                Once({Ok(exc.pos,
                         [ConstraintRule(ConstraintRuleType(ts[p]), ts[q],
                                         cmp.node, exc.node)
                             EXCEPT !.comment = cmt.node]) :
                      exc \in {Once({ParseExceptions(ts, x) :
                                     x \in {Skip(ts, cmt.pos)}})}}) :
                cmt \in {Once({ParseComment(ts, x) : x \in {Skip(ts, cmp.pos)}})}}) :
            cmp \in {Once({ParseComparison(ts, x) : x \in {Skip(ts, q + 1)}})}}) :
        q \in {Skip(ts, p + 1)}})

\* ConstraintRules = (_ (Annotation / Deny / Require / Warn) _)*
RECURSIVE ParseConstraintRules(_, _, _)
ParseConstraintRules(ts, q, acc) ==
    Once({IF ~rule.ok THEN Ok(q, acc)
          ELSE Once({ParseConstraintRules(ts, rule.pos, more) :
                     more \in {Append(acc, rule.node)}}) :
          rule \in {Once({IF Tok(ts, s) = <<"@">> THEN ParseAnnotation(ts, s)
                          ELSE ParseConstraintRule(ts, s) :
                          s \in {Skip(ts, q)}})}})

\* Imports = "imports" _ "{" _ ImportRules _ "}"
\* Constraints = "constraints" _ "{" _ ConstraintRules _ "}"
ParseBlock(ts, p) ==
    IF Tok(ts, p) \notin {Chars("imports"), Chars("constraints")} THEN Fail
    ELSE Once({
        IF Tok(ts, b) # <<"{">> THEN Fail
        ELSE Once({
            Once({IF Tok(ts, e) # <<"}">> THEN Fail
                  ELSE Ok(e + 1, IF ts[p] = Chars("imports")
                                 THEN ImportsBlock(rules.node)
                                 ELSE ConstraintsBlock(rules.node)) :
                  e \in {Skip(ts, rules.pos)}}) :
            rules \in {IF ts[p] = Chars("imports")
                       THEN ParseImportRules(ts, b + 1, <<>>)
                       ELSE ParseConstraintRules(ts, b + 1, <<>>)}}) :
        b \in {Skip(ts, p + 1)}})

\* ModuleItem = Annotation / TypeDeclaration / LocationDeclaration /
\*              VersionDeclaration / Interface / State / Imports / Constraints
ParseModuleItem(ts, p) ==
    IF Tok(ts, p) = <<"@">> THEN ParseAnnotation(ts, p)
    ELSE IF Tok(ts, p) \in {Chars("imports"), Chars("constraints")}
    THEN ParseBlock(ts, p)
    ELSE ParseDeclaration(ts, p)

\* ModuleBody = (_ ModuleItem _)*
RECURSIVE ParseModuleBody(_, _, _)
ParseModuleBody(ts, q, acc) ==
    Once({IF ~item.ok THEN Ok(q, acc)
          ELSE Once({ParseModuleBody(ts, item.pos, more) :
                     more \in {Append(acc, item.node)}}) :
          item \in {Once({ParseModuleItem(ts, s) : s \in {Skip(ts, q)}})}})

\* Annotation*
RECURSIVE ParseAnnotations(_, _)
ParseAnnotations(ts, q) ==
    Once({IF a.ok THEN ParseAnnotations(ts, a.pos) ELSE q :
          a \in {ParseAnnotation(ts, q)}})

\* Module = _ Annotation* _ "module" _ Identifier _ "{" _ ModuleBody _ "}" _
ParseModule(ts) ==
    Once({
        IF Tok(ts, m) # Chars("module") THEN Fail
        ELSE Once({
            IF ~IsIdentifier(Tok(ts, n)) THEN Fail
            ELSE Once({
                IF Tok(ts, b) # <<"{">> THEN Fail
                ELSE Once({
                    Once({IF Tok(ts, e) = <<"}">> /\ Skip(ts, e + 1) = Len(ts) + 1
                          THEN Ok(e + 1, ModuleNode(Str(ts[n]), body.node))
                          ELSE Fail :
                          e \in {Skip(ts, body.pos)}}) :
                    body \in {ParseModuleBody(ts, b + 1, <<>>)}}) :
                b \in {Skip(ts, n + 1)}}) :
            n \in {Skip(ts, m + 1)}}) :
        m \in {Once({Skip(ts, a) :
                     a \in {Once({ParseAnnotations(ts, s) :
                                  s \in {Skip(ts, 1)}})}})}})

\* parser.parse(content): the Module AST, or a SyntaxError.
parserParse(content) ==
    Once({IF m.ok THEN [threw |-> FALSE, ast |-> m.node] ELSE [threw |-> TRUE] :
          m \in {Once({ParseModule(ts) : ts \in {Tokens(content)}})}})

-----------------------------------------------------------------------------
(* The regular-expression literals of the parser module.  A literal is a    *)
(* sequence of items: a character class or a set of alternative words,      *)
(* each with its quantifier ("1", "?", "*", "+").  A position is the number *)
(* of characters consumed.                                                  *)

Cls(chars, q)    == [kind |-> "class", in |-> chars, neg |-> FALSE, q |-> q]
NotCls(chars, q) == [kind |-> "class", in |-> chars, neg |-> TRUE, q |-> q]
Alt(words, q)    == [kind |-> "words", words |-> words, q |-> q]
Lit(str)         == Alt({Chars(str)}, "1")

\* The positions one occurrence of an item can end at, from one of Q.
ItemOnce(Q, item, s) ==
    IF item.kind = "class"
    THEN {p + 1 : p \in {q \in Q : q < Len(s) /\ ((s[q + 1] \in item.in) # item.neg)}}
    ELSE {pw[1] + Len(pw[2]) :
            pw \in {x \in Q \X item.words :
                      /\ x[1] + Len(x[2]) <= Len(s)
                      /\ SubSeq(s, x[1] + 1, x[1] + Len(x[2])) = x[2]}}

\* The positions any number of occurrences of a class can end at.
ItemRun(Q, item, s) ==
    {e \in 0..Len(s) :
        \E p \in Q : p <= e /\ \A j \in (p + 1)..e : (s[j] \in item.in) # item.neg}

\* The positions an item can end at, having started at one of P.
ItemStep(P, item, s) ==
    CASE item.q = "1" -> ItemOnce(P, item, s)
      [] item.q = "?" -> P \cup ItemOnce(P, item, s)
      [] item.q = "*" -> ItemRun(P, item, s)
      [] item.q = "+" -> Once({ItemRun(Q, item, s) : Q \in {ItemOnce(P, item, s)}})

\* The positions a sequence of items can end at, having started at one of P.
RECURSIVE MatchFrom(_, _, _, _)
MatchFrom(items, k, s, P) ==
    IF k > Len(items) \/ P = {} THEN P
    ELSE Once({MatchFrom(items, k + 1, s, Q) : Q \in {ItemStep(P, items[k], s)}})
MatchEnds(items, s, P) == MatchFrom(items, 1, s, P)

\* s.match(/pre(grp)post/): the first capture group of the leftmost match
\* that starts at one of `starts`, every quantifier greedy.
Exec(pre, grp, post, s, starts) ==
    Once({
        IF S = {} THEN [matched |-> FALSE]
        ELSE Once({
            Once({[matched |-> TRUE, group |-> SubSeq(s, b + 1, Greatest(E))] :
                  E \in {{e \in MatchEnds(grp, s, {b}) :
                            MatchEnds(post, s, {e}) # {}}}}) :
            b \in {Once({Greatest(B) :
                     B \in {{x \in MatchEnds(pre, s, {Least(S)}) :
                               MatchEnds(grp \o post, s, {x}) # {}}}})}}) :
        S \in {{i \in starts : MatchEnds(pre \o grp \o post, s, {i}) # {}}}})

\* re.test(s), the expression unanchored
Test(items, s) == MatchEnds(items, s, 0..Len(s)) # {}

\* /\[([^\]]+)\]/
ArrayMatch(s) ==
    Exec(<<Lit("[")>>, <<NotCls({"]"}, "+")>>, <<Lit("]")>>, s, 0..Len(s))

\* isInBlock(lines, lineIndex, blockType), lineIndex counted from 1
RECURSIVE InBlockFrom(_, _, _, _, _, _)
InBlockFrom(lines, lineIndex, blockType, i, depth, inBlock) ==
    IF i > lineIndex THEN inBlock
    ELSE Once({
        Once({InBlockFrom(lines, lineIndex, blockType, i + 1, d,
                          IF Includes(line, <<"}">>) /\ d = 0 THEN FALSE
                          ELSE \/ StartsWith(line, blockType \o <<" ">>)
                               \/ line = blockType
                               \/ inBlock) :
              d \in {(IF Includes(line, <<"{">>) THEN depth + 1 ELSE depth)
                     - (IF Includes(line, <<"}">>) THEN 1 ELSE 0)}}) :
        line \in {Trim(lines[i])}})
isInBlock(lines, lineIndex, blockType) ==
    InBlockFrom(lines, lineIndex, blockType, 1, 0, FALSE)

-----------------------------------------------------------------------------
(* The recovery pass: findCommonSyntaxErrors.                               *)

Diagnostic(message, line, column) ==
    [message |-> message,
     location |-> [start |-> [line |-> line, column |-> column]]]

HasQuote(s) == Includes(s, <<"\"">>) \/ Includes(s, <<"'">>)

\* The check of an unquoted type: / location: / version: value.
UnquotedValue(line, trimmed, lineNum, key) ==
    IF StartsWith(trimmed, Chars(key) \o <<":">>) /\ ~HasQuote(trimmed)
    THEN <<Diagnostic(key \o " value must be quoted", lineNum,
                      IndexOf(line, <<":">>) + 1)>>
    ELSE <<>>

\* /function\s+\w+\s*\([^)]+\)/
FunctionWithParameters ==
    <<Lit("function"), Cls(WhiteSpaceChars, "+"), Cls(WordChars, "+"),
      Cls(WhiteSpaceChars, "*"), Lit("("), NotCls({")"}, "+"), Lit(")")>>

Visibilities == {Chars("private"), Chars("protected"), Chars("public")}

\* /^\s*(private|protected|public)?\s*(static)?\s*(readonly)?\s*\w+\s*:\s*\w+\s*=\s*/
StateInitializer ==
    <<Cls(WhiteSpaceChars, "*"), Alt(Visibilities, "?"),
      Cls(WhiteSpaceChars, "*"), Alt({Chars("static")}, "?"),
      Cls(WhiteSpaceChars, "*"), Alt({Chars("readonly")}, "?"),
      Cls(WhiteSpaceChars, "*"), Cls(WordChars, "+"),
      Cls(WhiteSpaceChars, "*"), Lit(":"),
      Cls(WhiteSpaceChars, "*"), Cls(WordChars, "+"),
      Cls(WhiteSpaceChars, "*"), Lit("="), Cls(WhiteSpaceChars, "*")>>

\* /^\s*(private|protected|public)?\s*\w+\s*$/
StateNameOnly ==
    <<Cls(WhiteSpaceChars, "*"), Alt(Visibilities, "?"),
      Cls(WhiteSpaceChars, "*"), Cls(WordChars, "+"), Cls(WhiteSpaceChars, "*")>>

\* cleanItem is a path that is not quoted
IsUnquotedPath(cleanItem) ==
    /\ \/ StartsWith(cleanItem, Chars("../"))
       \/ StartsWith(cleanItem, Chars("./"))
       \/ StartsWith(cleanItem, Chars("/"))
    /\ ~StartsWith(cleanItem, <<"\"">>) /\ ~StartsWith(cleanItem, <<"'">>)

\* The check of unquoted paths in an import array: one diagnostic per item.
UnquotedPaths(line, trimmed, lineNum) ==
    Once({
        IF ~arrayMatch.matched THEN <<>>
        ELSE Once({
            Flatten([k \in 1..Len(items) |->
                Once({IF IsUnquotedPath(cleanItem)
                      THEN <<Diagnostic("Paths in arrays should be quoted", lineNum,
                                        IndexOf(line, cleanItem))>>
                      ELSE <<>> :
                      cleanItem \in {Trim(items[k])}})]) :
            items \in {Split(arrayMatch.group, ",")}}) :
        arrayMatch \in {ArrayMatch(trimmed)}})

\* The check of content after an annotation's closing quote.
AfterAnnotation(trimmed, lineNum) ==
    IF ~(StartsWith(trimmed, <<"@">>) /\ Includes(trimmed, <<"\"">>)) THEN <<>>
    ELSE Once({
        IF last >= Len(trimmed) THEN <<>>
        ELSE Once({IF afterQuote # <<>> /\ ~StartsWith(afterQuote, Chars("//"))
                   THEN <<Diagnostic("Unexpected content after annotation",
                                     lineNum, last + 1)>>
                   ELSE <<>> :
                   afterQuote \in {Trim(SubSeq(trimmed, last + 1, Len(trimmed)))}}) :
        last \in {LastIndexOf(trimmed, <<"\"">>)}})

\* One check of a line: its diagnostic when the condition holds.
When(cond, message, lineNum, column) ==
    IF cond THEN <<Diagnostic(message, lineNum, column)>> ELSE <<>>

\* The diagnostics of one line, check by check in the order of the code.
ChecksOfLine(lines, line, trimmed, lineNum) ==
    <<When(StartsWith(trimmed, Chars("@ \"")) \/ StartsWith(trimmed, Chars("@\"")),
           "Annotations should not be quoted", lineNum, IndexOf(line, <<"@">>)),
      UnquotedValue(line, trimmed, lineNum, "type"),
      UnquotedValue(line, trimmed, lineNum, "location"),
      UnquotedValue(line, trimmed, lineNum, "version"),
      When(/\ Includes(trimmed, Chars("function")) /\ Includes(trimmed, <<"(">>)
           /\ ~Includes(trimmed, Chars("()"))
           /\ Test(FunctionWithParameters, trimmed),
           "Functions in interface should not have parameters, use empty parentheses ()",
           lineNum, IndexOf(line, <<"(">>)),
      When(/\ Includes(trimmed, <<"<">>) /\ Includes(trimmed, <<">">>)
           /\ ~Includes(trimmed, Chars(">=")) /\ ~Includes(trimmed, Chars("<=")),
           "Generic type syntax (e.g., Array<Type>) is not supported",
           lineNum, IndexOf(line, <<"<">>)),
      When(MatchEnds(StateInitializer, trimmed, {0}) # {},
           "State properties should not have initializers",
           lineNum, IndexOf(line, <<"=">>)),
      When(/\ Includes(trimmed, <<"|">>) /\ Includes(trimmed, <<":">>)
           /\ ~Includes(trimmed, Chars("||"))
           /\ IndexOf(trimmed, <<"|">>) > IndexOf(trimmed, <<":">>),
           "Union types are not supported", lineNum, IndexOf(line, <<"|">>)),
      When(/\ StartsWith(trimmed, Chars("allow "))
           /\ isInBlock(lines, lineNum, Chars("constraints")),
           "'allow' is not valid in constraints block",
           lineNum, IndexOf(line, Chars("allow"))),
      When(\/ Includes(trimmed, Chars("as \"external\""))
           \/ Includes(trimmed, Chars("as 'external'")),
           "'external' is a keyword and should not be quoted",
           lineNum, IndexOf(line, Chars("external"))),
      IF Includes(trimmed, <<"[">>) /\ isInBlock(lines, lineNum, Chars("imports"))
      THEN UnquotedPaths(line, trimmed, lineNum) ELSE <<>>,
      When(/\ Len(trimmed) \in MatchEnds(StateNameOnly, trimmed, {0})
           /\ isInBlock(lines, lineNum, Chars("state")),
           "State property missing type declaration", lineNum, 1),
      When(Includes(trimmed, Chars(" when ")),
           "Conditional constraints with 'when' are not supported",
           lineNum, IndexOf(line, Chars("when"))),
      AfterAnnotation(trimmed, lineNum)>>

LineDiagnostics(lines, lineNum) ==
    Once({Once({Flatten(checks) :
                checks \in {ChecksOfLine(lines, lines[lineNum], trimmed, lineNum)}}) :
          trimmed \in {Trim(lines[lineNum])}})

\* A recovery pass that halts on the first match.
findCommonSyntaxErrorsFirstMatch(content, lines) ==
    Once({IF all = <<>> THEN <<>> ELSE <<all[1]>> :
          all \in {Flatten([index \in 1..Len(lines) |->
                              LineDiagnostics(lines, index)])}})

\* findCommonSyntaxErrors(content, lines)
findCommonSyntaxErrors(content, lines) ==
    Once({Flatten(perLine) :
          perLine \in {[index \in 1..Len(lines) |-> LineDiagnostics(lines, index)]}})

-----------------------------------------------------------------------------
(* The regex fallback extractor.                                            *)

\* item.trim().replace(/["']/g, '')
StripQuotes(s) == SelectSeq(s, LAMBDA c : c \notin {"\"", "'"})

\* extractArrayPatterns(str)
extractArrayPatterns(str) ==
    Once({
        IF ~match.matched THEN <<>>
        ELSE Once({
            SelectSeq([k \in 1..Len(items) |-> StripQuotes(Trim(items[k]))],
                      LAMBDA cleaned : cleaned # <<>>) :
            items \in {Split(match.group, ",")}}) :
        match \in {ArrayMatch(str)}})

\* /key:\s*["']?([^"'\n\s]+)["']?/ for key type and location
KeyMatch(key, content) ==
    Exec(<<Lit(key), Cls(WhiteSpaceChars, "*"), Cls({"\"", "'"}, "?")>>,
         <<NotCls({"\"", "'"} \cup WhiteSpaceChars, "+")>>,
         <<Cls({"\"", "'"}, "?")>>, content, 0..Len(content))

\* A constraint of the fallback: /^"([^"]+)"/, else /^([\w\.\*]+)/
DenyPattern(rules, rest) ==
    Once({
        IF quotedMatch.matched
        THEN [rules EXCEPT !.constraints.deny =
                 Append(@, [pattern |-> quotedMatch.group])]
        ELSE Once({
            IF unquotedMatch.matched
            THEN [rules EXCEPT !.constraints.deny =
                     Append(@, [pattern |-> unquotedMatch.group])]
            ELSE rules :
            unquotedMatch \in {Exec(<<>>, <<Cls(WordChars \cup {".", "*"}, "+")>>,
                                    <<>>, rest, {0})}}) :
        quotedMatch \in {Exec(<<Lit("\"")>>, <<NotCls({"\""}, "+")>>,
                              <<Lit("\"")>>, rest, {0})}})

\* The rules after one line of the constraints block.
ConstraintLine(rules, trimmed) ==
    IF StartsWith(trimmed, <<"@">>) \/ StartsWith(trimmed, Chars("//"))
    THEN rules
    ELSE IF ~StartsWith(trimmed, Chars("deny ")) THEN rules
    ELSE Once({
        IF StartsWith(rest, Chars("imports "))
        THEN [rules EXCEPT !.deniedImports = @ \o extractArrayPatterns(rest)]
        ELSE IF StartsWith(rest, Chars("exports "))
        THEN [rules EXCEPT !.constraints.deny =
                 Append(@, [pattern |-> S_exports,
                            patterns |-> extractArrayPatterns(rest)])]
        ELSE DenyPattern(rules, rest) :
        rest \in {SubSeq(trimmed, 6, Len(trimmed))}})

\* constraintLines.forEach(...)
RECURSIVE ConstraintLines(_, _, _)
ConstraintLines(constraintLines, k, rules) ==
    IF k > Len(constraintLines) THEN rules
    ELSE Once({ConstraintLines(constraintLines, k + 1, next) :
               next \in {Once({ConstraintLine(rules, trimmed) :
                               trimmed \in {Trim(constraintLines[k])}})}})

\* The header of the fallback: moduleName, type and location.
HeaderRules(content) ==
    Once({[EmptyRules EXCEPT
             !.moduleName = IF m[1].matched THEN Str(m[1].group) ELSE @,
             !.type       = IF m[2].matched THEN Str(Trim(m[2].group)) ELSE @,
             !.location   = IF m[3].matched THEN Str(Trim(m[3].group)) ELSE @] :
          m \in {<<Exec(<<Lit("module"), Cls(WhiteSpaceChars, "+")>>,
                        <<Cls(WordChars, "+")>>,
                        <<Cls(WhiteSpaceChars, "*"), Lit("{")>>,
                        content, 0..Len(content)),
                   KeyMatch("type:", content),
                   KeyMatch("location:", content)>>}})

\* An extractor that reads the module name off the match without a test
\* for null: no Rule Set for a text without a module header.
extractRulesWithRegexUnguarded(content, lines) ==
    IF Includes(content, Chars("module ")) THEN HeaderRules(content) ELSE Null

\* extractRulesWithRegex(content, lines)
extractRulesWithRegex(content, lines) ==
    Once({
        IF ~constraintsMatch.matched THEN HeaderRules(content)
        ELSE Once({ConstraintLines(constraintLines, 1, named) :
                   constraintLines \in {Split(constraintsMatch.group, "\n")},
                   named \in {HeaderRules(content)}}) :
        constraintsMatch \in {Exec(<<Lit("constraints"), Cls(WhiteSpaceChars, "*"),
                                     Lit("{")>>,
                                   <<NotCls({"}"}, "+")>>, <<Lit("}")>>,
                                   content, 0..Len(content))}})

\* parseRuxFileWithRecovery(filePath), from reading the file to the strict
\* parse, the recovery pass and the fallback extraction: the file as the
\* validator sees it.
ReadRuxFile(basename, content) ==
    Once({
        IF ~parsed.threw
        THEN [basename |-> basename, success |-> TRUE, ast |-> parsed.ast]
        ELSE Once({[basename |-> basename, success |-> FALSE,
                    diagnostics |-> findCommonSyntaxErrors(content, lines),
                    fallbackRules |-> extractRulesWithRegex(content, lines)] :
                   lines \in {Split(content, "\n")}}) :
        parsed \in {parserParse(content)}})

-----------------------------------------------------------------------------
(* The Constraint Evaluator.  An evaluation returns its violations, or     *)
(* throws (the RegExp constructor's SyntaxError).                          *)

Violation(type, severity, text, args, line) ==
    [type |-> type, severity |-> severity,
     message |-> [text |-> text, args |-> args], line |-> line]

Returned(vs) == [threw |-> FALSE, violations |-> vs]
Thrown       == [threw |-> TRUE, violations |-> <<>>]

Min(a, b) == IF a <= b THEN a ELSE b

HasPattern(c) == "pattern" \in DOMAIN c

\* createDenyConstraintVisitors: the patterns of the CallExpression
\* handlers, one per deny constraint on io.console*, in rule order.
createDenyConstraintVisitors(rules) ==
    LET denies == rules.constraints.deny
        picked == SelectSeq(denies,
                    LAMBDA c : HasPattern(c) /\ StartsWith(c.pattern, S_io_console))
    IN [i \in 1..Len(picked) |-> picked[i].pattern]

\* A visitor that takes a call on any member expression for a console call.
CallExpressionVisitorAnyObject(node, rules, lines) ==
    LET handlers == createDenyConstraintVisitors(rules) IN
    IF node.callee.type = "MemberExpression"
    THEN Returned([i \in 1..Len(handlers) |->
            Violation("constraint", "error",
                      "Console operations are denied (${pattern})",
                      <<handlers[i]>>, Min(node.line, Len(lines)))])
    ELSE Returned(<<>>)

\* The merged CallExpression visitor: every handler, on one node.
CallExpressionVisitor(node, rules, lines) ==
    LET handlers == createDenyConstraintVisitors(rules) IN
    IF /\ node.callee.type = "MemberExpression"
       /\ node.callee.object.name = "console"
    THEN Returned([i \in 1..Len(handlers) |->
            Violation("constraint", "error",
                      "Console operations are denied (${pattern})",
                      <<handlers[i]>>, Min(node.line, Len(lines)))])
    ELSE Returned(<<>>)

\* createRequiredConstraintVisitors: one JSXOpeningElement handler, set
\* (and set again) by each require constraint on pattern.accessibility.
createRequiredConstraintVisitors(rules) ==
    \E i \in 1..Len(rules.constraints.require) :
        rules.constraints.require[i].pattern = S_accessibility

\* attr.type === 'JSXAttribute' && attr.name.name &&
\* attr.name.name.startsWith('aria-'): where attr.name.name is a node and
\* not a string, startsWith is undefined and the call is a TypeError.
AttributeTest(attr) ==
    IF attr.type # "JSXAttribute" THEN "false"
    ELSE IF attr.name.type = "JSXNamespacedName" THEN "throws"
    ELSE IF StartsWith(attr.name.name, S_aria) THEN "true"
    ELSE "false"

\* node.attributes.some(...): the test of the first attribute for which it
\* is not false, or false.
SomeAttribute(attributes) ==
    LET decided == {i \in 1..Len(attributes) :
                      AttributeTest(attributes[i]) # "false"}
    IN IF decided = {} THEN "false"
       ELSE AttributeTest(attributes[CHOOSE i \in decided :
                                        \A j \in decided : i <= j])

JSXOpeningElementVisitor(node, rules) ==
    LET hasAria == SomeAttribute(node.attributes)
    IN IF ~createRequiredConstraintVisitors(rules) THEN Returned(<<>>)
       ELSE IF hasAria = "throws" THEN Thrown
       ELSE IF /\ hasAria = "false"
               /\ node.name.name # "div"
       THEN Returned(<<Violation("constraint", "warning",
                "Missing accessibility attributes (pattern.accessibility)",
                <<>>, node.line)>>)
       ELSE Returned(<<>>)

\* The violations of one import path at one line: one per denied pattern
\* whose regular expression finds a match; a pattern that is no regular
\* expression throws.
DeniedImportViolations(importPath, line, rules) ==
    LET pats == rules.deniedImports
        hits == SelectSeq(pats,
                  LAMBDA dp : DeniedImportTest(dp, importPath) = "true")
    IN IF \E i \in 1..Len(pats) : DeniedImportTest(pats[i], importPath) = "throws"
       THEN Thrown
       ELSE Returned([i \in 1..Len(hits) |->
               Violation("import", "error",
                         "Import from \"${importPath}\" is denied",
                         <<importPath>>, line)])

\* createImportConstraintVisitors: the ImportDeclaration visitor.
ImportDeclarationVisitor(node, rules) ==
    DeniedImportViolations(node.source.value, node.line, rules)

\* visitors[nodeType](node), for the visitors validateWithAST spreads
\* into one object.
Visit(node, rules, lines) ==
    CASE node.type = "CallExpression"    -> CallExpressionVisitor(node, rules, lines)
      [] node.type = "JSXOpeningElement" -> JSXOpeningElementVisitor(node, rules)
      [] node.type = "ImportDeclaration" -> ImportDeclarationVisitor(node, rules)
      [] OTHER                           -> Returned(<<>>)

\* Evaluations in sequence: the violations of all, or the first throw.
Chain(results) ==
    IF \E i \in 1..Len(results) : results[i].threw THEN Thrown
    ELSE Returned(Flatten([i \in 1..Len(results) |-> results[i].violations]))

RECURSIVE traverse(_, _, _)
traverse(node, rules, lines) ==
    Chain(<<Visit(node, rules, lines)>> \o
          [i \in 1..Len(node.kids) |-> traverse(node.kids[i], rules, lines)])

validateWithAST(ast, lines, rules) == traverse(ast, rules, lines)

\* What the fallback's line scan sees in a line's text.
IncludesImport(l)       == l.kind = "import"                \* 'import '
HasFromMatch(l)         == l.kind = "import" /\ Len(l.path) > 0
IncludesConsoleDot(l)   == l.kind = "console"               \* 'console.'
IncludesLocalStorage(l) == l.kind = "localStorage"
IncludesIO(l)           == l.kind = "alert"   \* 'alert(', 'document.', 'window.'
StartsWithExport(l)     == l.kind = "export"                \* 'export '
IncludesUnderscore(l)   == l.kind = "export" /\ l.underscore
IncludesAria(l)         ==
    l.kind = "jsx" /\ \E i \in 1..Len(l.attrs) : StartsWith(l.attrs[i], S_aria)

\* lines.forEach((line, index) => { if (<hit>) violations.push(<at index + 1>) }),
\* given for each line whether it hits and the violation it then pushes.
ForEachLine(hits, pushed) ==
    Flatten([i \in 1..Len(hits) |-> IF hits[i] THEN <<pushed[i]>> ELSE <<>>])

RegexImports(lines, rules) ==
    Chain([i \in 1..Len(lines) |->
             IF IncludesImport(lines[i]) /\ HasFromMatch(lines[i])
             THEN DeniedImportViolations(lines[i].path, i, rules)
             ELSE Returned(<<>>)])

RegexOperations(lines, rules) ==
    Flatten([k \in 1..Len(rules.deniedOperations) |->
        LET operation == rules.deniedOperations[k] IN
        (IF Includes(operation, S_console)
         THEN ForEachLine(
                [n \in 1..Len(lines) |-> IncludesConsoleDot(lines[n])],
                [n \in 1..Len(lines) |->
                    Violation("operation", "error",
                              "Console operations are denied (${operation})",
                              <<operation>>, n)])
         ELSE <<>>)
        \o
        (IF Includes(operation, S_localStorage)
         THEN ForEachLine(
                [n \in 1..Len(lines) |-> IncludesLocalStorage(lines[n])],
                [n \in 1..Len(lines) |->
                    Violation("operation", "error",
                              "localStorage operations are denied", <<>>, n)])
         ELSE <<>>)])

RegexDenyConstraints(lines, rules) ==
    Flatten([k \in 1..Len(rules.constraints.deny) |->
        LET constraint == rules.constraints.deny[k] IN
        (IF HasPattern(constraint) /\ constraint.pattern = S_io_star
         THEN ForEachLine(
                [n \in 1..Len(lines) |-> IncludesIO(lines[n])],
                [n \in 1..Len(lines) |->
                    Violation("constraint", "error",
                              "IO operations are denied (${constraint.pattern})",
                              <<constraint.pattern>>, n)])
         ELSE <<>>)
        \o
        (IF /\ HasPattern(constraint) /\ constraint.pattern = S_exports
            /\ "patterns" \in DOMAIN constraint
         THEN Flatten([n \in 1..Len(lines) |->
                IF StartsWithExport(lines[n])
                THEN Flatten([j \in 1..Len(constraint.patterns) |->
                        IF /\ constraint.patterns[j] = S_underscore_star
                           /\ IncludesUnderscore(lines[n])
                        THEN <<Violation("export", "error",
                                 "Exports starting with underscore are denied",
                                 <<>>, n)>>
                        ELSE <<>>])
                ELSE <<>>])
         ELSE <<>>)])

\* The line-count check: warn constraints only, always with '>'.
RegexLineCount(lines, rules) ==
    Flatten([k \in 1..Len(rules.constraints.warn) |->
        LET constraint == rules.constraints.warn[k] IN
        IF /\ constraint.pattern = S_file_lines
           /\ constraint.comparison # Null
           /\ Len(lines) > constraint.comparison.value
        THEN <<Violation("constraint", "warning",
                 "File exceeds ${limit} lines (has ${lines.length})",
                 <<constraint.comparison.value, Len(lines)>>, Len(lines))>>
        ELSE <<>>])

RegexRequired(lines, rules) ==
    Flatten([k \in 1..Len(rules.constraints.require) |->
        IF /\ rules.constraints.require[k].pattern = S_accessibility
           /\ ~\E n \in 1..Len(lines) : IncludesAria(lines[n])
        THEN <<Violation("constraint", "warning",
                 "Missing accessibility attributes (pattern.accessibility)",
                 <<>>, 1)>>
        ELSE <<>>])

validateWithRegex(lines, rules) ==
    Chain(<<RegexImports(lines, rules),
            Returned(RegexOperations(lines, rules)),
            Returned(RegexDenyConstraints(lines, rules)),
            Returned(RegexLineCount(lines, rules)),
            Returned(RegexRequired(lines, rules))>>)

\* validateFileAgainstRules(filePath, rules), the file at filePath given.
validateFileAgainstRules(target, rules) ==
    IF ~target.exists
    THEN Returned(<<Violation("missing", "error", "File does not exist", <<>>, 0)>>)
    ELSE LET lines  == SplitLines(target)
             parsed == parse(lines)
             astRun == IF parsed.threw THEN Thrown
                       ELSE validateWithAST(parsed.ast, lines, rules)
         IN IF astRun.threw THEN validateWithRegex(lines, rules) ELSE astRun

-----------------------------------------------------------------------------
(* validate.js: EnhancedRubricValidator.                                   *)
(*                                                                         *)
(* A specification file is its basename and what parseRuxFileWithRecovery  *)
(* makes of its text: the Module AST of a strict parse, or the strict      *)
(* parser's error, the recovery pass's diagnostics and the Rule Set of the *)
(* regex extractor.  A Rule Set object is named by the index in ruxFiles   *)
(* of the file it was built from (heap), 0 is null.                        *)

ParsedFile(basename, ast) ==
    [basename |-> basename, success |-> TRUE, ast |-> ast]
BrokenFile(basename, diagnostics, fallbackRules) ==
    [basename |-> basename, success |-> FALSE, diagnostics |-> diagnostics,
     fallbackRules |-> fallbackRules]

\* A parseRuxFileWithRecovery that leaves the strict parser's error out of
\* the list.
parseRuxFileWithRecoveryHeuristicsOnly(f) ==
    IF f.success
    THEN [success |-> TRUE, ast |-> f.ast, errors |-> <<>>]
    ELSE [success |-> FALSE, errors |-> f.diagnostics,
          fallbackRules |-> f.fallbackRules]

\* parseRuxFileWithRecovery(filePath)
parseRuxFileWithRecovery(f) ==
    IF f.success
    THEN [success |-> TRUE, ast |-> f.ast, errors |-> <<>>]
    ELSE [success |-> FALSE,
          errors |-> <<"strict parser error">> \o f.diagnostics,
          fallbackRules |-> f.fallbackRules]

\* String.prototype.toLowerCase on the basenames of the model.
ToLowerCase(name) ==
    CASE name = "Base.rux"        -> "base.rux"
      [] name = "GlobalSpecs.rux" -> "globalspecs.rux"
      [] name = "Rubric.RUX"      -> "rubric.rux"
      [] OTHER                    -> name

metaFiles ==
    {"base.rux", "rubric.rux", "design-system.rux", "globalspecs.rux",
     "designsystem.rux"}

\* The filter with the basename compared as it is written.
IsMetaCaseSensitive(f) == f.basename \in metaFiles

IsMeta(f) == \E meta \in metaFiles : ToLowerCase(f.basename) = ToLowerCase(meta)

\* The two filters of ruxFiles, as indices into it in discovery order.
componentRuxFiles ==
    SelectSeq([i \in 1..Len(ruxFiles) |-> i], LAMBDA i : ~IsMeta(ruxFiles[i]))
foundMetaFiles ==
    SelectSeq([i \in 1..Len(ruxFiles) |-> i], LAMBDA i : IsMeta(ruxFiles[i]))

\* Array.prototype.find over foundMetaFiles: the first match, or 0.
FindMeta(name) ==
    LET hits == SelectSeq(foundMetaFiles,
                   LAMBDA i : ToLowerCase(ruxFiles[i].basename) = name)
    IN IF hits = <<>> THEN 0 ELSE Head(hits)

baseRuxPath     == FindMeta("base.rux")
globalSpecsPath == FindMeta("globalspecs.rux")

\* parseAndExtractRules(ruxPath): the Rule Set it returns ...
parseAndExtractRules(i) ==
    LET parseResult == parseRuxFileWithRecovery(ruxFiles[i]) IN
    IF ~parseResult.success THEN parseResult.fallbackRules
    ELSE extractRulesFromAST(parseResult.ast)

\* ... and the syntax errors it stores.
StoredSyntaxErrors(i) ==
    LET parseResult == parseRuxFileWithRecovery(ruxFiles[i]) IN
    [k \in 1..Len(parseResult.errors) |->
        [file |-> i, error |-> parseResult.errors[k]]]

\* A merge that puts the pushed entries first.
PushAllInFront(target, source) ==
    [target EXCEPT
        !.constraints.require = source.constraints.require \o @,
        !.constraints.deny    = source.constraints.deny \o @,
        !.constraints.warn    = source.constraints.warn \o @,
        !.deniedImports       = source.deniedImports \o @,
        !.deniedOperations    = source.deniedOperations \o @]

\* A merge that keeps one copy of an entry both sides hold.
PushAllDeduplicated(target, source) ==
    LET miss(xs, ys) == SelectSeq(ys, LAMBDA y : ~\E i \in 1..Len(xs) : xs[i] = y)
    IN [target EXCEPT
        !.constraints.require = @ \o miss(@, source.constraints.require),
        !.constraints.deny    = @ \o miss(@, source.constraints.deny),
        !.constraints.warn    = @ \o miss(@, source.constraints.warn),
        !.deniedImports       = @ \o miss(@, source.deniedImports),
        !.deniedOperations    = @ \o miss(@, source.deniedOperations)]

\* A merge that pushes allowedImports along with the five.
PushAllWithAllowed(target, source) ==
    [target EXCEPT
        !.constraints.require = @ \o source.constraints.require,
        !.constraints.deny    = @ \o source.constraints.deny,
        !.constraints.warn    = @ \o source.constraints.warn,
        !.allowedImports      = @ \o source.allowedImports,
        !.deniedImports       = @ \o source.deniedImports,
        !.deniedOperations    = @ \o source.deniedOperations]

\* target.field.push(...source.field), for the five array fields.
PushAll(target, source) ==
    [target EXCEPT
        !.constraints.require = @ \o source.constraints.require,
        !.constraints.deny    = @ \o source.constraints.deny,
        !.constraints.warn    = @ \o source.constraints.warn,
        !.deniedImports       = @ \o source.deniedImports,
        !.deniedOperations    = @ \o source.deniedOperations]

\* The file at path.join(process.cwd(), location).
TargetAt(location) ==
    IF location \in DOMAIN disk THEN disk[location] ELSE MissingFile

\* A validateFile whose missing-file branch does not return.
validateFileNoReturn(location, rs, moduleName) ==
    LET res == validateFileAgainstRules(TargetAt(location), rs)
        missing == IF TargetAt(location).exists THEN <<>>
                   ELSE <<[file |-> location, module |-> moduleName,
                           type |-> "missing", severity |-> "error",
                           message |-> [text |-> "File specified in .rux does not exist",
                                        args |-> <<>>]]>>
    IN IF res.threw THEN Thrown
       ELSE Returned(missing \o
               [k \in 1..Len(res.violations) |->
                 [file |-> location, module |-> moduleName,
                  type |-> res.violations[k].type,
                  severity |-> res.violations[k].severity,
                  message |-> res.violations[k].message,
                  line |-> res.violations[k].line]])

\* validateFile(filePath, rules, moduleName): what it pushes to
\* this.violations, or the throw of validateFileAgainstRules.
validateFile(location, rs, moduleName) ==
    IF ~TargetAt(location).exists
    THEN Returned(<<[file |-> location, module |-> moduleName,
                     type |-> "missing", severity |-> "error",
                     message |-> [text |-> "File specified in .rux does not exist",
                                  args |-> <<>>]]>>)
    ELSE LET res == validateFileAgainstRules(TargetAt(location), rs) IN
         IF res.threw THEN Thrown
         ELSE Returned([k \in 1..Len(res.violations) |->
                 [file |-> location, module |-> moduleName,
                  type |-> res.violations[k].type,
                  severity |-> res.violations[k].severity,
                  message |-> res.violations[k].message,
                  line |-> res.violations[k].line]])

-----------------------------------------------------------------------------
(* The files of the model's runs.                                          *)

MaxComponents == 2

DenyConsole == ConstraintRule("DenyConstraintRule", P_io_console_star, Null, <<>>)
DenyNetwork == ConstraintRule("DenyConstraintRule", P_io_network_star, Null, <<>>)
DenyMutations == ConstraintRule("DenyConstraintRule", P_mutations, Null, <<>>)
RequireA11y == ConstraintRule("RequireRule", S_accessibility, Null, <<>>)
WarnLines(n) ==
    ConstraintRule("WarnRule", S_file_lines, [op |-> ">", value |-> n], <<>>)

\* module Btn { type: "presentation" location: "src/Btn.tsx"
\*              constraints { deny io.console.* } }
BtnAst ==
    ModuleNode("Btn", <<TypeDeclaration("presentation"),
                        LocationDeclaration("src/Btn.tsx"),
                        ConstraintsBlock(<<DenyConsole>>)>>)
\* module Net { location: "src/Net.ts" constraints { @ note  deny io.network.* } }
NetAst ==
    ModuleNode("Net", <<LocationDeclaration("src/Net.ts"),
                        ConstraintsBlock(<<AnnotationNode, DenyNetwork>>)>>)
\* module Lod { type: "service" location: "src/Lod.ts"
\*              imports { allow react as external
\*                        deny imports [lodash*] except: [lodash.fp] } }
LodAst ==
    ModuleNode("Lod", <<TypeDeclaration("service"),
                        LocationDeclaration("src/Lod.ts"),
                        ImportsBlock(<<AllowRule(P_react, <<>>),
                                       DenyRule(<<P_lodash_star>>, <<P_lodash_fp>>)>>)>>)
\* module NoLoc { type: "utility" constraints { warn file.lines > 1 } }
NoLocAst ==
    ModuleNode("NoLoc", <<TypeDeclaration("utility"),
                          ConstraintsBlock(<<WarnLines(1)>>)>>)
\* module Wrn { location: "src/Btn.tsx" constraints { warn file.lines > 1 } }
WrnAst ==
    ModuleNode("Wrn", <<LocationDeclaration("src/Btn.tsx"),
                        ConstraintsBlock(<<WarnLines(1)>>)>>)
\* module Svc { type: service  location: "src/Svc.ts"
\*              constraints { deny imports ["../services/*"] } }
\* (the strict parse fails; the regex extractor's Rule Set)
SvcFallback ==
    [EmptyRules EXCEPT !.moduleName = "Svc", !.type = "service",
                       !.location = "src/Svc.ts",
                       !.deniedImports = <<P_services_star>>]

\* module Cpp { location: src/Cpp.ts  constraints { deny imports ["c++"] } }
\* (the strict parse fails; the regex extractor's Rule Set)
CppFallback ==
    [EmptyRules EXCEPT !.moduleName = "Cpp", !.location = "src/Cpp.ts",
                       !.deniedImports = <<P_cpp>>]

ComponentFiles ==
    {ParsedFile("Btn.rux", BtnAst), ParsedFile("Net.rux", NetAst),
     ParsedFile("Lod.rux", LodAst), ParsedFile("NoLoc.rux", NoLocAst),
     ParsedFile("Wrn.rux", WrnAst),
     BrokenFile("Svc.rux", <<"Type value must be quoted">>, SvcFallback),
     BrokenFile("Cpp.rux", <<"Location value must be quoted">>, CppFallback)}

\* module Base { constraints { require pattern.accessibility  deny io.console.*
\*                              warn file.lines > 2 }
\*               imports { allow lodash.fp  deny imports [react] } }
BaseAst ==
    ModuleNode("Base", <<ConstraintsBlock(<<RequireA11y, DenyConsole, WarnLines(2)>>),
                         ImportsBlock(<<AllowRule(P_lodash_fp, <<>>),
                                        DenyRule(<<P_react>>, <<>>)>>)>>)
\* a base.rux the strict parser rejects: constraints { deny io.* }
BaseFallback ==
    [EmptyRules EXCEPT !.moduleName = "Base",
                       !.constraints.deny = <<[pattern |-> S_io_star]>>]
\* module GlobalSpecs { constraints { deny pattern.mutations } }
GlobalAst ==
    ModuleNode("GlobalSpecs", <<ConstraintsBlock(<<DenyMutations>>)>>)
GlobalFallback ==
    [EmptyRules EXCEPT !.moduleName = "GlobalSpecs",
                       !.deniedImports = <<P_react>>]

BaseChoices ==
    {<<>>, <<ParsedFile("base.rux", BaseAst)>>,
     <<BrokenFile("Base.rux", <<>>, BaseFallback)>>}
GlobalChoices ==
    {<<>>, <<ParsedFile("globalspecs.rux", GlobalAst)>>,
     <<BrokenFile("GlobalSpecs.rux", <<"Unquoted array item">>, GlobalFallback)>>}

\* module Rubric { location: "src/Btn.tsx" constraints { deny io.console.* } }
\* in a file named Rubric.RUX
RubricAst ==
    ModuleNode("Rubric", <<LocationDeclaration("src/Btn.tsx"),
                           ConstraintsBlock(<<DenyConsole>>)>>)
OtherMetaChoices == {<<>>, <<ParsedFile("Rubric.RUX", RubricAst)>>}

Locations == {"src/Btn.tsx", "src/Net.ts", "src/Lod.ts", "src/Svc.ts", "src/Cpp.ts"}

DiskClean ==
    [l \in Locations |->
        CASE l = "src/Btn.tsx" -> File(<<OtherLine, OtherLine, ConsoleLine(1)>>, FALSE)
          [] l = "src/Net.ts"  -> File(<<FetchLine, MutationLine>>, TRUE)
          [] l = "src/Lod.ts"  -> File(<<ImportLine(P_lodash_fp), ConsoleLine(2)>>, FALSE)
          [] l = "src/Svc.ts"  -> File(<<ImportLine(P_services_user)>>, FALSE)
          [] l = "src/Cpp.ts"  -> File(<<ImportLine(P_cpp), OtherLine>>, FALSE)]
DiskOther ==
    [l \in Locations |->
        CASE l = "src/Btn.tsx" ->
                 File(<<ConsoleLine(2), JsxLine("button", <<>>), BadLine>>, FALSE)
          [] l = "src/Net.ts"  -> File(<<ImportLine(P_react_dom), LocalStorageLine>>, FALSE)
          [] l = "src/Lod.ts"  -> File(<<ImportLine(P_react), AlertLine, BadLine>>, FALSE)
          [] l = "src/Svc.ts"  -> File(<<ImportLine(P_service), OtherLine, OtherLine>>, TRUE)
          [] l = "src/Cpp.ts"  -> File(<<ConsoleLine(1), BadLine>>, FALSE)]
DiskMissing == [l \in Locations |-> MissingFile]

Disks == {DiskClean, DiskOther, DiskMissing}

-----------------------------------------------------------------------------
(* run(): one action per step of the loop.                                 *)

IdleRun ==
    /\ ruxFiles = <<>> /\ disk = DiskMissing /\ pc = "idle" /\ ci = 0
    /\ heap = <<>> /\ baseRules = 0 /\ rulesRef = 0 /\ violations = <<>>
    /\ syntaxErrors = <<>> /\ checkedFiles = 0 /\ ruxFilesProcessed = 0
    /\ exitCode = Null
IdleMatch == mPattern = <<>> /\ mCandidate = <<>> /\ mResult = "idle"
IdleEval  == eRules = Null /\ eTarget = MissingFile /\ eResult = Null
IdleText  ==
    /\ tContent = <<>> /\ tResult = Null /\ tRules = Null
    /\ tAst = Null /\ tExtracted = <<>>

RunInit ==
    /\ \E b \in BaseChoices, g \in GlobalChoices, r \in OtherMetaChoices,
          cs \in SeqsUpTo(ComponentFiles, MaxComponents) :
            /\ Len(cs) >= 1
            /\ ruxFiles = r \o cs \o g \o b
    /\ disk \in Disks
    /\ pc = "base"
    /\ ci = 1
    /\ heap = [i \in 1..Len(ruxFiles) |-> Null]
    /\ baseRules = 0
    /\ rulesRef = 0
    /\ violations = <<>>
    /\ syntaxErrors = <<>>
    /\ checkedFiles = 0
    /\ ruxFilesProcessed = 0
    /\ exitCode = Null
    /\ IdleMatch /\ IdleEval /\ IdleText

\* if (baseRuxPath) baseRules = this.parseAndExtractRules(baseRuxPath)
ParseBase ==
    /\ pc = "base"
    /\ pc' = "global"
    /\ IF baseRuxPath # 0
       THEN /\ heap' = [heap EXCEPT ![baseRuxPath] = parseAndExtractRules(baseRuxPath)]
            /\ baseRules' = baseRuxPath
            /\ syntaxErrors' = syntaxErrors \o StoredSyntaxErrors(baseRuxPath)
            /\ ruxFilesProcessed' = ruxFilesProcessed + 1
       ELSE UNCHANGED <<heap, baseRules, syntaxErrors, ruxFilesProcessed>>
    /\ UNCHANGED <<ruxFiles, disk, ci, rulesRef, violations, checkedFiles, exitCode>>
    /\ UNCHANGED <<matchVars, evalVars, textVars>>

\* if (globalSpecsPath) { ... push into baseRules, or become baseRules }
ParseGlobal ==
    /\ pc = "global"
    /\ pc' = "loop"
    /\ IF globalSpecsPath # 0
       THEN LET globalRules == parseAndExtractRules(globalSpecsPath) IN
            /\ syntaxErrors' = syntaxErrors \o StoredSyntaxErrors(globalSpecsPath)
            /\ ruxFilesProcessed' = ruxFilesProcessed + 1
            /\ IF baseRules # 0
               THEN /\ heap' = [heap EXCEPT
                                  ![globalSpecsPath] = globalRules,
                                  ![baseRules] = PushAll(heap[baseRules], globalRules)]
                    /\ baseRules' = baseRules
               ELSE /\ heap' = [heap EXCEPT ![globalSpecsPath] = globalRules]
                    /\ baseRules' = globalSpecsPath
       ELSE UNCHANGED <<heap, baseRules, syntaxErrors, ruxFilesProcessed>>
    /\ UNCHANGED <<ruxFiles, disk, ci, rulesRef, violations, checkedFiles, exitCode>>
    /\ UNCHANGED <<matchVars, evalVars, textVars>>

\* const rules = this.parseAndExtractRules(ruxFile)
ParseComponent ==
    /\ pc = "loop"
    /\ ci <= Len(componentRuxFiles)
    /\ pc' = "merge"
    /\ rulesRef' = componentRuxFiles[ci]
    /\ heap' = [heap EXCEPT ![componentRuxFiles[ci]] =
                    parseAndExtractRules(componentRuxFiles[ci])]
    /\ syntaxErrors' = syntaxErrors \o StoredSyntaxErrors(componentRuxFiles[ci])
    /\ ruxFilesProcessed' = ruxFilesProcessed + 1
    /\ UNCHANGED <<ruxFiles, disk, ci, baseRules, violations, checkedFiles, exitCode>>
    /\ UNCHANGED <<matchVars, evalVars, textVars>>

\* A merge that pushes the component's entries into the base as well.
MergeBaseBothWays ==
    /\ pc = "merge"
    /\ pc' = "validate"
    /\ heap' = IF baseRules # 0
               THEN [heap EXCEPT
                       ![rulesRef]  = PushAll(heap[rulesRef], heap[baseRules]),
                       ![baseRules] = PushAll(heap[baseRules], heap[rulesRef])]
               ELSE heap
    /\ UNCHANGED <<ruxFiles, disk, ci, baseRules, rulesRef, violations,
                   syntaxErrors, checkedFiles, ruxFilesProcessed, exitCode>>
    /\ UNCHANGED <<matchVars, evalVars, textVars>>

\* if (baseRules) { rules.<field>.push(...baseRules.<field>) }
MergeBase ==
    /\ pc = "merge"
    /\ pc' = "validate"
    /\ heap' = IF baseRules # 0
               THEN [heap EXCEPT ![rulesRef] = PushAll(heap[rulesRef], heap[baseRules])]
               ELSE heap
    /\ UNCHANGED <<ruxFiles, disk, ci, baseRules, rulesRef, violations,
                   syntaxErrors, checkedFiles, ruxFilesProcessed, exitCode>>
    /\ UNCHANGED <<matchVars, evalVars, textVars>>

\* if (rules.location) this.validateFile(targetFile, rules, rules.moduleName)
\* An exception leaves run(): the promise rejects, .catch(console.error)
\* logs it and the process ends without printResults.
ValidateTarget ==
    /\ pc = "validate"
    /\ LET rs  == heap[rulesRef]
           res == validateFile(rs.location, rs, rs.moduleName)
       IN IF rs.location = ""
          THEN /\ pc' = "loop" /\ ci' = ci + 1
               /\ UNCHANGED <<violations, checkedFiles, exitCode>>
          ELSE IF res.threw
          THEN /\ pc' = "crashed" /\ exitCode' = 0
               /\ checkedFiles' = checkedFiles + 1
               /\ UNCHANGED <<violations, ci>>
          ELSE /\ pc' = "loop" /\ ci' = ci + 1
               /\ violations' = violations \o res.violations
               /\ checkedFiles' = IF TargetAt(rs.location).exists
                                  THEN checkedFiles + 1 ELSE checkedFiles
               /\ UNCHANGED exitCode
    /\ UNCHANGED <<ruxFiles, disk, heap, baseRules, rulesRef, syntaxErrors,
                   ruxFilesProcessed>>
    /\ UNCHANGED <<matchVars, evalVars, textVars>>

\* printResults(): process.exit(0) when both lists are empty, else exit(1)
printResults ==
    /\ pc = "loop"
    /\ ci > Len(componentRuxFiles)
    /\ pc' = "exited"
    /\ exitCode' = IF Len(syntaxErrors) = 0 /\ Len(violations) = 0 THEN 0 ELSE 1
    /\ UNCHANGED <<ruxFiles, disk, ci, heap, baseRules, rulesRef, violations,
                   syntaxErrors, checkedFiles, ruxFilesProcessed>>
    /\ UNCHANGED <<matchVars, evalVars, textVars>>

Init == RunInit
Next ==
    \/ ParseBase
    \/ ParseGlobal
    \/ ParseComponent
    \/ MergeBase
    \/ ValidateTarget
    \/ printResults

Spec == Init /\ [][Next]_vars

-----------------------------------------------------------------------------
(* The denied-import test alone, on patterns and candidates drawn from     *)
(* bounded sets.                                                           *)

PatternChars   == {"a", ".", "*", "+", "("}
CandidateChars == {"a", ".", "+", "("}

MatchPatterns ==
    SeqsUpTo(PatternChars, MaxPatLen) \cup {P_react, P_services_star, P_cpp}
MatchCandidates ==
    SeqsUpTo(CandidateChars, MaxCandLen)
        \cup {P_react, P_react_dom, P_services_user, P_service, P_cpp}

MatchInit ==
    /\ mPattern \in MatchPatterns
    /\ mCandidate \in MatchCandidates
    /\ mResult = "idle"
    /\ IdleRun /\ IdleEval /\ IdleText

RunMatch ==
    /\ mResult = "idle"
    /\ mResult' = DeniedImportTest(mPattern, mCandidate)
    /\ UNCHANGED <<mPattern, mCandidate>>
    /\ UNCHANGED <<evalVars, runVars, textVars>>

SpecMatch == MatchInit /\ [][RunMatch]_vars

-----------------------------------------------------------------------------
(* One evaluation of a target against a Rule Set, both drawn from bounded  *)
(* sets: Rule Sets the extractor returns for a module, and the Rule Sets   *)
(* of the scenarios.                                                       *)

MaxRules == 2
MaxLines == 3

P_a == <<"a">>
P_b == <<"b">>
P_a_star == <<"a", "*">>

EvalConstraintRules == {DenyConsole, DenyNetwork, WarnLines(2)}
EvalDeniedImports   == {<<>>, <<P_b>>, <<P_a, P_b, P_a_star>>}

EvalAst(cs, pats) ==
    ModuleNode("M", <<LocationDeclaration("src/M.ts"), ConstraintsBlock(cs)>>
                    \o IF pats = <<>> THEN <<>>
                       ELSE <<ImportsBlock(<<DenyRule(pats, <<>>)>>)>>)

\* module Big { location: "src/Big.ts" constraints { warn file.lines > 200 } }
BigAst ==
    ModuleNode("Big", <<LocationDeclaration("src/Big.ts"),
                        ConstraintsBlock(<<WarnLines(200)>>)>>)

\* warn file.lines op 2 and deny file.lines op 2, for each operator of the
\* grammar's ComparisonOperator.
LineCountRules ==
    {ConstraintRule(t, S_file_lines, [op |-> op, value |-> 2], <<>>) :
        t \in {"WarnRule", "DenyConstraintRule"},
        op \in {">", "<", ">=", "<=", "=="}}

EvalRuleSets ==
    {extractRulesFromAST(EvalAst(cs, pats)) :
        cs \in SeqsUpTo(EvalConstraintRules, MaxRules),
        pats \in EvalDeniedImports}
    \cup {extractRulesFromAST(BtnAst), extractRulesFromAST(BigAst), SvcFallback,
          CppFallback,
          extractRulesFromAST(BaseAst),
          extractRulesFromAST(EvalAst(<<RequireA11y>>, <<>>)),
          extractRulesFromAST(EvalAst(<<DenyConsole, RequireA11y>>, <<P_a>>)),
          PushAll(extractRulesFromAST(NetAst), extractRulesFromAST(GlobalAst))}
    \cup {extractRulesFromAST(EvalAst(<<c>>, <<>>)) : c \in LineCountRules}

EvalLines ==
    {OtherLine, ConsoleLine(1), ConsoleLine(2), ImportLine(P_a), BadLine}

\* <button>, <button aria-label>, <div>, <input id>, <use xlink:href>,
\* <use aria-label xlink:href>
JsxLines ==
    {JsxLine("button", <<>>), JsxLine("button", <<P_aria_label>>),
     JsxLine("div", <<>>), JsxLine("input", <<P_id>>),
     JsxLine("use", <<P_xlink_href>>),
     JsxLine("use", <<P_aria_label, P_xlink_href>>)}

Lines250 == [i \in 1..250 |-> OtherLine]

EvalTargets ==
    {File(text, FALSE) : text \in SeqsUpTo(EvalLines, MaxLines)}
    \cup {File(text, FALSE) : text \in SeqsUpTo(JsxLines, MaxRules)}
    \cup {MissingFile,
          File(Lines250, FALSE),
          File([Lines250 EXCEPT ![7] = BadLine], FALSE),
          File(<<ImportLine(P_services_user)>>, FALSE),
          File(<<ImportLine(P_service)>>, FALSE),
          File(<<ImportLine(P_react_dom)>>, FALSE),
          File(<<OtherLine, BadLine, ImportLine(P_services_user)>>, FALSE),
          File(<<FetchLine, MutationLine>>, FALSE),
          File(<<JsxLine("button", <<>>), ConsoleLine(1)>>, FALSE),
          File(<<JsxLine("button", <<>>), BadLine>>, FALSE),
          File(<<ImportLine(P_cpp), BadLine>>, FALSE)}

EvalInit ==
    /\ eRules \in EvalRuleSets
    /\ eTarget \in EvalTargets
    /\ eResult = Null
    /\ IdleRun /\ IdleMatch /\ IdleText

Evaluate ==
    /\ eResult = Null
    /\ eResult' = validateFileAgainstRules(eTarget, eRules)
    /\ UNCHANGED <<eRules, eTarget>>
    /\ UNCHANGED <<matchVars, runVars, textVars>>

SpecEval == EvalInit /\ [][Evaluate]_vars

-----------------------------------------------------------------------------
(* Parsing with recovery alone, and the regex extractor alone, on          *)
(* specification texts: module M { ... } around up to MaxBodyLines lines,  *)
(* and some texts of other shapes.                                         *)

MaxBodyLines == 2

Text(lines) == Join([i \in 1..Len(lines) |-> Chars(lines[i])], "\n")

BodyLines ==
    {"  type: \"service\"",
     "  type: component",
     "  location: \"src/A.ts\"",
     "  location: src/A.ts",
     "  version: 1",
     "  imports { allow \"react\" as external }",
     "  imports { allow react as \"external\" }",
     "  imports { deny imports [\"../services/*\"] }",
     "  imports { deny imports [lodash*] except: [lodash.fp] }",
     "  imports { deny imports [../a, ./b] }",
     "  constraints { deny io.console.* }",
     "  constraints { warn file.lines > 200 }",
     "  constraints { deny x when y }",
     "  @ \"note\" more"}

\* Scenario C: type: component, with more to report on later lines.
ScenarioC ==
    Text(<<"module Svc {",
           "  type: component",
           "  location: src/Svc.ts",
           "  constraints {",
           "    deny imports [\"../services/*\"]",
           "    deny exports [ _* , 'x' ]",
           "    deny \"io.*\"",
           "    allow foo",
           "  }",
           "}">>)

\* A closed constraints block, then an imports block with an allow line.
AllowAfterConstraints ==
    Text(<<"module Two {",
           "  constraints {",
           "    deny io.console.*",
           "  }",
           "  imports {",
           "    allow \"react\" as \"external\"",
           "  }",
           "}">>)

BrokenMembers ==
    Text(<<"module Mem {",
           "  state {",
           "    count",
           "    private n: number = 1",
           "    x: A | B",
           "    items: Array<T>",
           "  }",
           "  interface { function f(a) }",
           "}">>)

\* A module with one value written as a quoted string: a declaration's
\* value, an import path, an item of a deny array, an item of an except array.
QuotedForms ==
    {Text(<<"module Q {", line, "}">>) :
        line \in {"  type: \"service\"",
                  "  location: \"src/A.ts\"",
                  "  version: \"1\"",
                  "  imports { allow \"react\" as external }",
                  "  imports { deny imports [\"lodash*\"] }",
                  "  imports { deny imports [lodash*] except: [\"lodash.fp\"] }"}}

Texts ==
    {Text(<<"module M {">> \o body \o <<"}">>) :
        body \in SeqsUpTo(BodyLines, MaxBodyLines)}
    \cup QuotedForms
    \cup {<<>>, Text(<<"type: component">>), Text(<<"constraints {", "}">>),
          Text(<<"@ first", "@ second", "module M {", "}">>),
          ScenarioC, AllowAfterConstraints, BrokenMembers}

TextInit ==
    /\ tContent \in Texts
    /\ tResult = Null
    /\ tRules = Null
    /\ tAst = Null
    /\ tExtracted = <<>>
    /\ IdleRun /\ IdleMatch /\ IdleEval

\* parseRuxFileWithRecovery on the text
ParseWithRecovery ==
    /\ tResult = Null
    /\ tResult' = parseRuxFileWithRecovery(ReadRuxFile("M.rux", tContent))
    /\ UNCHANGED <<tContent, tRules, tAst, tExtracted>>
    /\ UNCHANGED <<matchVars, evalVars, runVars>>

\* extractRulesWithRegex on the text
ExtractWithRegex ==
    /\ tRules = Null
    /\ tRules' = extractRulesWithRegex(tContent, Split(tContent, "\n"))
    /\ UNCHANGED <<tContent, tResult, tAst, tExtracted>>
    /\ UNCHANGED <<matchVars, evalVars, runVars>>

NextText ==
    \/ ParseWithRecovery
    \/ ExtractWithRegex

SpecText == TextInit /\ [][NextText]_vars

-----------------------------------------------------------------------------
(* The Rule Extractor alone, called up to MaxCalls times on one Module     *)
(* AST: constraints blocks of up to MaxBlockRules rules, and the ASTs of   *)
(* two specification files.                                                *)

MaxBlockRules == 3
MaxCalls == 2

P_io      == <<"i","o">>
P_radio_x == <<"r","a","d","i","o",".","x">>

\* deny file.lines > 1, deny io, deny radio.x
DenyLines == ConstraintRule("DenyConstraintRule", S_file_lines,
                            [op |-> ">", value |-> 1], <<>>)
DenyIo    == ConstraintRule("DenyConstraintRule", P_io, Null, <<>>)
DenyRadio == ConstraintRule("DenyConstraintRule", P_radio_x, Null, <<>>)

BlockRules ==
    {DenyConsole, DenyMutations, DenyLines, DenyIo, DenyRadio, RequireA11y,
     WarnLines(1), AnnotationNode}

ExtractAsts ==
    {ModuleNode("M", <<ConstraintsBlock(cs)>>) :
        cs \in SeqsUpTo(BlockRules, MaxBlockRules)}
    \cup {ModuleNode("M", <<ConstraintsBlock(<<a>>),
                            ImportsBlock(<<DenyRule(<<P_lodash_star>>, <<>>)>>),
                            ConstraintsBlock(<<b>>)>>) :
            a \in BlockRules, b \in BlockRules}
    \cup {BtnAst, WrnAst}

ExtractInit ==
    /\ tAst \in ExtractAsts
    /\ tExtracted = <<>>
    /\ tContent = <<>> /\ tResult = Null /\ tRules = Null
    /\ IdleRun /\ IdleMatch /\ IdleEval

\* An extractor whose rules object outlives the call: the arrays of the
\* last call are still in it when the next call pushes.
ExtractFromASTKeepingState ==
    /\ Len(tExtracted) < MaxCalls
    /\ tExtracted' =
           Append(tExtracted,
                  IF tExtracted = <<>> THEN extractRulesFromAST(tAst)
                  ELSE PushAll(tExtracted[Len(tExtracted)],
                               extractRulesFromAST(tAst)))
    /\ UNCHANGED <<tContent, tResult, tRules, tAst>>
    /\ UNCHANGED <<matchVars, evalVars, runVars>>

\* const rules = extractRulesFromAST(parseResult.ast)
ExtractFromAST ==
    /\ Len(tExtracted) < MaxCalls
    /\ tExtracted' = Append(tExtracted, extractRulesFromAST(tAst))
    /\ UNCHANGED <<tContent, tResult, tRules, tAst>>
    /\ UNCHANGED <<matchVars, evalVars, runVars>>

SpecExtract == ExtractInit /\ [][ExtractFromAST]_vars

-----------------------------------------------------------------------------
(* Properties.                                                             *)

\* The five array fields of a Rule Set, in a fixed order.
ArrayFields(rs) ==
    <<rs.constraints.require, rs.constraints.deny, rs.constraints.warn,
      rs.deniedImports, rs.deniedOperations>>

IsRuleSet(x) == "moduleName" \in DOMAIN x

\* C1: the step that merges the base Rule Set into a component's Rule Set
\* leaves the component's moduleName, type and location as they are and
\* makes each of the five array fields the component's entries followed by
\* the base's entries, nothing removed, nothing deduplicated.
C1_MergeStep ==
    (pc = "merge" /\ baseRules # 0) =>
        /\ heap'[rulesRef].moduleName = heap[rulesRef].moduleName
        /\ heap'[rulesRef].type = heap[rulesRef].type
        /\ heap'[rulesRef].location = heap[rulesRef].location
        /\ \A k \in 1..5 :
              ArrayFields(heap'[rulesRef])[k] =
                  ArrayFields(heap[rulesRef])[k] \o ArrayFields(heap[baseRules])[k]
C1_MergeIsConcatenation == [][C1_MergeStep]_vars

\* A merge has put a base with its own deny and import rules behind a
\* component's deny rule (Btn's io.console.* before the base's).
C1_Witness ==
    /\ pc = "validate" /\ baseRules # 0
    /\ heap[rulesRef].moduleName = "Btn"
    /\ Len(heap[baseRules].constraints.deny) >= 1
    /\ Len(heap[baseRules].deniedImports) >= 1
    /\ Len(heap[rulesRef].constraints.deny) >= 2
    /\ heap[rulesRef].constraints.deny[1] = heap[rulesRef].constraints.deny[2]

\* C2: with a component A, base.rux B and globalspecs.rux C, the Rule Set
\* the component is validated with has every array field equal to
\* A.field ++ B.field ++ C.field; and no step shortens an array field of any
\* Rule Set.
C2_ValidatedWithABC ==
    (pc = "validate" /\ baseRuxPath # 0 /\ globalSpecsPath # 0) =>
        \A k \in 1..5 :
            ArrayFields(heap[rulesRef])[k] =
                ArrayFields(parseAndExtractRules(rulesRef))[k]
                \o ArrayFields(parseAndExtractRules(baseRuxPath))[k]
                \o ArrayFields(parseAndExtractRules(globalSpecsPath))[k]
C2_NoFieldShrinks ==
    \A i \in DOMAIN heap :
        IsRuleSet(heap[i]) =>
            /\ IsRuleSet(heap'[i])
            /\ \A k \in 1..5 :
                  Len(ArrayFields(heap'[i])[k]) >= Len(ArrayFields(heap[i])[k])
C2_MergeChain == []C2_ValidatedWithABC /\ [][C2_NoFieldShrinks]_vars

\* A component is about to be validated with entries of all three files:
\* Net's own deny rule, then the base's two, then the global's one.
C2_Witness ==
    /\ pc = "validate" /\ baseRuxPath # 0 /\ globalSpecsPath # 0
    /\ ruxFiles[baseRuxPath].success /\ ruxFiles[globalSpecsPath].success
    /\ heap[rulesRef].moduleName = "Net"
    /\ Len(heap[rulesRef].constraints.deny) = 3
    /\ heap[rulesRef].constraints.deny[1].pattern = P_io_network_star
    /\ heap[rulesRef].constraints.deny[3].pattern = P_mutations

\* The Pattern Matcher as the specification words it: '*' stands for any run
\* of characters, every other character for itself, and the whole candidate
\* must be matched.
GlobMatches(p, s) ==
    LET RECURSIVE Go(_, _)
        Go(k, P) ==
            IF k > Len(p) THEN P
            ELSE Go(k + 1,
                    IF p[k] = "*"
                    THEN {e \in 0..Len(s) : \E q \in P : q <= e}
                    ELSE {q + 1 : q \in {x \in P : x < Len(s) /\ s[x + 1] = p[k]}})
    IN Len(s) \in Go(1, {0})

\* The deny rules of a module's imports blocks.
DenyRulesOf(ast) ==
    {r \in UNION {{b.rules[j] : j \in 1..Len(b.rules)} :
                    b \in {x \in {ast.body[i] : i \in 1..Len(ast.body)} :
                              x.type = "Imports"}} :
        r.type = "DenyRule"}

SeqHas(xs, x) == \E i \in 1..Len(xs) : xs[i] = x

\* C3: a rule with an exception list never emits a violation for a candidate
\* one of its exceptions matches.  For import deny rules: every import
\* violation of a module validated on its own rules stems from a deny rule
\* that matches the path and has no exception matching it.
C3_ExceptionsSuppress ==
    \A k \in 1..Len(violations), i \in 1..Len(ruxFiles) :
        LET v == violations[k]
            f == ruxFiles[i]
        IN (/\ v.type = "import" /\ baseRules = 0
            /\ f.success /\ f.ast.name = v.module) =>
              \E r \in DenyRulesOf(f.ast) :
                  /\ \E j \in 1..Len(r.patterns) :
                        DeniedImportTest(r.patterns[j], v.message.args[1]) = "true"
                  /\ ~\E j \in 1..Len(r.exceptions) :
                        GlobMatches(r.exceptions[j], v.message.args[1])

\* C4: the denied-import test is a whole-string match: a pattern without
\* wildcards matches only the identical candidate.
C4_WholeStringMatch ==
    (mResult = "true" /\ ~SeqHas(mPattern, "*")) => mCandidate = mPattern

\* C5: for a pattern of literal characters and '*' the test never raises, and
\* it is true whenever the candidate is the pattern with each '*' removed.
C5_MatcherTotal ==
    mResult # "idle" =>
        /\ mResult \in {"true", "false"}
        /\ (mCandidate = SelectSeq(mPattern, LAMBDA c : c # "*")) => mResult = "true"

\* The line of each call on console in a text, in source order.
ConsoleCallLines(lines) ==
    Flatten([i \in 1..Len(lines) |->
               IF lines[i].kind = "console"
               THEN [k \in 1..lines[i].calls |-> i] ELSE <<>>])

Parses(target) ==
    target.exists /\ ~\E i \in 1..Len(target.text) : target.text[i].kind = "bad"

C7_OnePerMatchingPair ==
    (eResult # Null /\ eTarget.exists /\ ~eResult.threw) =>
        \A i \in 1..Len(eTarget.text) :
            eTarget.text[i].kind = "import" =>
                Cardinality({k \in 1..Len(eResult.violations) :
                               /\ eResult.violations[k].type = "import"
                               /\ eResult.violations[k].line = i})
                = Cardinality({j \in 1..Len(eRules.deniedImports) :
                                 GlobMatches(eRules.deniedImports[j],
                                             eTarget.text[i].path)})

\* C8: a target of 250 lines against warn file.lines > 200 yields exactly one
\* warning, whose message states 200 and 250, whether or not the target
\* parses.
C8_LineCountWarning ==
    (/\ eResult # Null /\ eTarget.exists /\ Len(eTarget.text) = 250
     /\ eRules = extractRulesFromAST(BigAst)) =>
        /\ ~eResult.threw
        /\ Len(eResult.violations) = 1
        /\ eResult.violations[1].severity = "warning"
        /\ eResult.violations[1].message.args = <<200, 250>>

\* How many of the components validated so far are module `name`, and how
\* many violations are recorded for it.
ValidatedCount(name) ==
    Cardinality({j \in 1..(ci - 1) :
                   j <= Len(componentRuxFiles)
                   /\ parseAndExtractRules(componentRuxFiles[j]).moduleName = name})
ViolationCount(name) ==
    Cardinality({k \in 1..Len(violations) : violations[k].module = name})

\* C9: globalspecs.rux with deny list [pattern.mutations] merged into module
\* Net with deny list [io.network.*]: a target that calls fetch and mutates
\* yields exactly two violations for each validation of Net.
C9_TwoViolations ==
    (/\ pc \in {"loop", "exited"}
     /\ baseRuxPath = 0 /\ globalSpecsPath # 0
     /\ ruxFiles[globalSpecsPath] = ParsedFile("globalspecs.rux", GlobalAst)
     /\ TargetAt("src/Net.ts").exists
     /\ SeqHas(TargetAt("src/Net.ts").text, FetchLine)
     /\ SeqHas(TargetAt("src/Net.ts").text, MutationLine)) =>
        ViolationCount("Net") = 2 * ValidatedCount("Net")

\* C10: validating a component whose target file does not exist records
\* exactly one violation, of type missing and severity error, and runs no
\* check on a file (checkedFiles stays), whatever the Rule Set holds.
C10_MissingStep ==
    (/\ pc = "validate" /\ heap[rulesRef].location # ""
     /\ ~TargetAt(heap[rulesRef].location).exists) =>
        /\ Len(violations') = Len(violations) + 1
        /\ SubSeq(violations', 1, Len(violations)) = violations
        /\ violations'[Len(violations')].type = "missing"
        /\ violations'[Len(violations')].severity = "error"
        /\ violations'[Len(violations')].module = heap[rulesRef].moduleName
        /\ checkedFiles' = checkedFiles
        /\ pc' = "loop"
C10_MissingTarget == [][C10_MissingStep]_vars

\* A module with deny rules of its own and a base merged in was validated
\* against a missing file: the one violation recorded for it is the missing one.
C10_Witness ==
    /\ pc = "loop" /\ ci = 2 /\ baseRules # 0
    /\ heap[rulesRef].moduleName = "Lod"
    /\ Len(heap[rulesRef].deniedImports) >= 2
    /\ Len(heap[rulesRef].constraints.deny) >= 1
    /\ ~TargetAt(heap[rulesRef].location).exists
    /\ Len(violations) = 1
    /\ violations[1].type = "missing"

-----------------------------------------------------------------------------
(* The recovery pass and the fallback, on one specification text.           *)

\* The text was parsed with recovery and the strict parse failed.
Recovered == tResult # Null /\ ~tResult.success

\* The diagnostics of the recovery pass: errors without the strict error.
RecoveryDiagnostics == Tail(tResult.errors)

\* The diagnostics reported for line lineNum, in the order reported.
DiagnosticsAt(lineNum) ==
    SelectSeq(RecoveryDiagnostics, LAMBDA d : d.location.start.line = lineNum)

\* The check of unquoted paths in an import array, in ChecksOfLine.
PathsCheck == 11

\* What each check reports for the line, in the order of the checks.
ReportsOfLine(lines, lineNum) ==
    ChecksOfLine(lines, lines[lineNum], Trim(lines[lineNum]), lineNum)

\* C11 as stated: at most one diagnostic per line and check, a check being
\* known by its message.
C11_OnePerLineAndCheck ==
    Recovered =>
        \A i \in 1..Len(RecoveryDiagnostics), j \in 1..Len(RecoveryDiagnostics) :
            (/\ RecoveryDiagnostics[i].location.start.line
                    = RecoveryDiagnostics[j].location.start.line
             /\ RecoveryDiagnostics[i].message = RecoveryDiagnostics[j].message)
                => i = j

\* C11: when the strict parse fails, every check runs on every line and
\* whatever it reports is in the errors, line by line and check by check:
\* one diagnostic per matching line for every check but the one of unquoted
\* paths in an import array, which reports one per unquoted path item; a
\* line type: component is reported with "must be quoted" at its 1-based
\* line number, whatever is reported before or after it.
C11_EveryMatchReported ==
    Recovered =>
        LET lines == Split(tContent, "\n") IN
        /\ tResult.errors[1] = "strict parser error"
        /\ \A lineNum \in 1..Len(lines) :
              LET reports == ReportsOfLine(lines, lineNum) IN
              /\ DiagnosticsAt(lineNum) = Flatten(reports)
              /\ \A check \in DOMAIN reports :
                    check # PathsCheck => Len(reports[check]) <= 1
              /\ Trim(lines[lineNum]) = Chars("type: component") =>
                    \E k \in 1..Len(RecoveryDiagnostics) :
                        /\ RecoveryDiagnostics[k].location.start.line = lineNum
                        /\ Includes(Chars(RecoveryDiagnostics[k].message),
                                    Chars("must be quoted"))
        /\ \A k \in 1..Len(RecoveryDiagnostics) :
              /\ RecoveryDiagnostics[k].location.start.line \in 1..Len(lines)
              /\ k > 1 => RecoveryDiagnostics[k - 1].location.start.line
                            <= RecoveryDiagnostics[k].location.start.line

\* Scenario C was parsed with recovery: type: component on line 2 is
\* reported, and so are the unquoted location on line 3 and the allow line
\* of the constraints block on line 8.
C11_Witness ==
    /\ tContent = ScenarioC /\ Recovered
    /\ Len(DiagnosticsAt(2)) = 1 /\ Len(DiagnosticsAt(3)) = 1
    /\ Len(DiagnosticsAt(8)) = 1

-----------------------------------------------------------------------------
(* The run as a whole.                                                      *)

\* Component i of the run was parsed and the loop came to validating it.
ComponentReached(i) ==
    /\ heap[componentRuxFiles[i]] # Null
    /\ ci >= i

\* No step of run() remains: it returned through printResults, or an
\* exception left it.
RunEnded == pc \in {"exited", "crashed"}

\* C12: every component specification file of a run is parsed and, when
\* its Rule Set has a location, its target validated, whatever failed to
\* parse strictly before it: no run ends with a component left out.
C12_EveryComponentReached ==
    RunEnded => \A i \in 1..Len(componentRuxFiles) : ComponentReached(i)

\* C13: a run ends with exit code 0 exactly when no syntax error and no
\* violation was accumulated, and with exit code 1 otherwise.
C13_ExitCode ==
    RunEnded =>
        /\ exitCode \in {0, 1}
        /\ exitCode = 0 <=> (Len(syntaxErrors) = 0 /\ Len(violations) = 0)

\* Every violation accumulated is a warning, and there is one.
OnlyWarnings ==
    /\ violations # <<>>
    /\ \A k \in 1..Len(violations) : violations[k].severity = "warning"

\* C14: a run whose specifications all parse and whose only violations are
\* warnings is a clean run: it ends with exit code 0.
C14_WarningsDoNotBlock ==
    (RunEnded /\ syntaxErrors = <<>> /\ OnlyWarnings) => exitCode = 0

\* The rules of a Rule Set are all of the kinds the evaluator checks on a
\* syntax tree: deny io.console*, require pattern.accessibility, denied
\* imports.
OnlyVisitorRules(rs) ==
    /\ rs.constraints.warn = <<>>
    /\ \A i \in 1..Len(rs.constraints.deny) :
          /\ HasPattern(rs.constraints.deny[i])
          /\ StartsWith(rs.constraints.deny[i].pattern, S_io_console)
    /\ \A i \in 1..Len(rs.constraints.require) :
          rs.constraints.require[i].pattern = S_accessibility

\* C15: duplicate rules are evaluated independently: when the Rule Set
\* yields n violations on a target, the Rule Set with every rule occurring
\* twice (merged with itself, as a base holding the component's rules would
\* make it) yields 2 * n.
C15_DuplicatesMultiply ==
    (/\ eResult # Null /\ ~eResult.threw
     /\ Parses(eTarget) /\ OnlyVisitorRules(eRules)) =>
        LET twice == validateFileAgainstRules(eTarget, PushAll(eRules, eRules))
        IN /\ ~twice.threw
           /\ Len(twice.violations) = 2 * Len(eResult.violations)

\* C16: once the base Rule Set is constructed (the loop has begun), no step
\* changes it: the reference stays and every field of the Rule Set it
\* refers to keeps its contents.
C16_BaseStep ==
    (pc \in {"loop", "merge", "validate"} /\ baseRules # 0) =>
        /\ baseRules' = baseRules
        /\ heap'[baseRules] = heap[baseRules]
C16_BaseReadOnly == [][C16_BaseStep]_vars

\* Two components were merged with a base of base.rux and globalspecs.rux
\* and validated; the base holds what its two files gave it.
C16_Witness ==
    /\ pc = "loop" /\ ci = 3
    /\ baseRuxPath # 0 /\ globalSpecsPath # 0 /\ baseRules = baseRuxPath
    /\ Len(heap[baseRules].constraints.deny) = 2
    /\ Len(heap[componentRuxFiles[1]].constraints.deny) >= 2
    /\ Len(heap[componentRuxFiles[2]].constraints.deny) >= 2

\* The same specification with its quoted values written without quotes.
Unquoted(content) == StripQuotes(content)

\* C17: a declaration's value, an import path and an item of a deny or
\* except array are accepted only as quoted strings: the quoted form parses
\* and the same specification with the value unquoted is a parse error.
C17_QuotingIsGrammar ==
    (tResult # Null /\ tContent \in QuotedForms) =>
        /\ tResult.success
        /\ parserParse(Unquoted(tContent)).threw

\* x is a Rule Set with all its fields.
HasAllFields(x) ==
    /\ DOMAIN x = DOMAIN EmptyRules
    /\ DOMAIN x.constraints = DOMAIN EmptyRules.constraints
    /\ \A field \in {"allowedImports", "deniedImports", "deniedOperations"} :
          DOMAIN x[field] = 1..Len(x[field])
    /\ \A kind \in DOMAIN x.constraints :
          DOMAIN x.constraints[kind] = 1..Len(x.constraints[kind])

\* C18: the regex fallback extractor returns a Rule Set with all fields for
\* every text: the empty text gives the empty Rule Set, and a text with no
\* module header or no constraints block gives empty fields for what it lacks.
C18_FallbackTotal ==
    LET content == tContent
        rules   == extractRulesWithRegex(content, Split(content, "\n"))
    IN /\ HasAllFields(rules)
       /\ tRules # Null => tRules = rules
       /\ content = <<>> => rules = EmptyRules
       /\ ~Includes(content, Chars("module")) => rules.moduleName = ""
       /\ ~Includes(content, Chars("constraints")) =>
             /\ rules.constraints = EmptyRules.constraints
             /\ rules.deniedImports = <<>>

\* The extractor ran on the empty text, or on a text with neither a module
\* header nor a constraints block.
C18_Witness ==
    /\ tRules # Null /\ HasAllFields(tRules)
    /\ \/ tContent = <<>>
       \/ tContent = Text(<<"type: component">>) /\ tRules.type = "component"


-----------------------------------------------------------------------------
(* The Rule Extractor on one Module AST.                                   *)

\* The rules of the AST's constraints blocks, in source order.
ConstraintRulesIn(ast) ==
    Flatten([i \in 1..Len(ast.body) |->
                IF ast.body[i].type = "Constraints" THEN ast.body[i].rules
                ELSE <<>>])

RulesOfType(ast, t) == SelectSeq(ConstraintRulesIn(ast), LAMBDA r : r.type = t)

PatternsOf(rs) == [i \in 1..Len(rs) |-> rs[i].pattern]

IsOperationPattern(p) == StartsWith(p, S_io_dot) \/ StartsWith(p, S_pattern_dot)

\* C19: the Rule Set extracted from a Module AST has in deniedOperations
\* exactly the patterns of the deny constraints whose pattern starts with
\* io. or pattern., in their order; every deny constraint, of either kind,
\* is in constraints.deny, and none of them is in require or warn.
C19_DeniedOperations ==
    \A k \in 1..Len(tExtracted) :
        LET rs == tExtracted[k]
            denies == RulesOfType(tAst, "DenyConstraintRule")
        IN /\ rs.deniedOperations =
                  SelectSeq(PatternsOf(denies), IsOperationPattern)
           /\ PatternsOf(rs.constraints.deny) = PatternsOf(denies)
           /\ PatternsOf(rs.constraints.require) =
                  PatternsOf(RulesOfType(tAst, "RequireRule"))
           /\ PatternsOf(rs.constraints.warn) =
                  PatternsOf(RulesOfType(tAst, "WarnRule"))

\* An extraction from an AST whose deny constraints are, in this order, one
\* of another prefix, one of pattern. and one of io.
C19_Witness ==
    /\ tExtracted # <<>>
    /\ PatternsOf(RulesOfType(tAst, "DenyConstraintRule")) =
           <<P_radio_x, P_mutations, P_io_console_star>>
    /\ tExtracted[1].deniedOperations = <<P_mutations, P_io_console_star>>

-----------------------------------------------------------------------------
(* The line-count check.                                                   *)

\* The constraints on file.lines that carry a comparison, warn and deny.
LineCountConstraints(rs) ==
    SelectSeq(rs.constraints.warn \o rs.constraints.deny,
              LAMBDA c : /\ HasPattern(c) /\ c.pattern = S_file_lines
                         /\ "comparison" \in DOMAIN c /\ c.comparison # Null)

Compare(op, a, b) ==
    CASE op = ">"  -> a > b
      [] op = "<"  -> a < b
      [] op = ">=" -> a >= b
      [] op = "<=" -> a <= b
      [] op = "==" -> a = b

LineCountViolations(vs) ==
    SelectSeq(vs, LAMBDA v :
        v.message.text = "File exceeds ${limit} lines (has ${lines.length})")

\* C21: an evaluation of an existing target reports one line-count violation
\* for each warn or deny constraint on file.lines whose own comparison holds
\* between the target's line count and the threshold, and no other; each
\* message states a threshold of such a constraint and the line count.
C21_LineCountByOperator ==
    (eResult # Null /\ eTarget.exists /\ ~eResult.threw) =>
        LET n     == Len(SplitLines(eTarget))
            due   == SelectSeq(LineCountConstraints(eRules),
                        LAMBDA c : Compare(c.comparison.op, n, c.comparison.value))
            found == LineCountViolations(eResult.violations)
        IN /\ Len(found) = Len(due)
           /\ \A i \in 1..Len(found) :
                /\ found[i].message.args[2] = n
                /\ \E j \in 1..Len(due) :
                     found[i].message.args[1] = due[j].comparison.value

-----------------------------------------------------------------------------
(* What an import violation names.                                         *)

\* C22: the import violations of an import line name, one after the other,
\* the line's import path together with each deniedImports entry that
\* matched it; two entries matching the same import give two violations
\* that differ in the pattern they name.
C22_ImportNamesPathAndPattern ==
    (eResult # Null /\ eTarget.exists /\ ~eResult.threw) =>
        \A i \in 1..Len(eTarget.text) :
            eTarget.text[i].kind = "import" =>
                LET path  == eTarget.text[i].path
                    found == SelectSeq(eResult.violations,
                                LAMBDA v : v.type = "import" /\ v.line = i)
                    hits  == SelectSeq(eRules.deniedImports,
                                LAMBDA dp : DeniedImportTest(dp, path) = "true")
                IN /\ Len(found) = Len(hits)
                   /\ \A k \in 1..Len(found) :
                        found[k].message.args = <<path, hits[k]>>

-----------------------------------------------------------------------------
(* The two modes of the evaluator.                                         *)

\* validateWithAST on the target, where the target parser accepts it.
StructuralRun(target, rules) ==
    LET lines == SplitLines(target) IN
    IF parse(lines).threw THEN Thrown
    ELSE validateWithAST(parse(lines).ast, lines, rules)

\* C23: the evaluation of an existing target returns; what it returns is the
\* list of the structural evaluation when the target parses and that
\* evaluation completes, and the list of the fallback evaluation otherwise.
C23_OneModeOrTheOther ==
    (eResult # Null /\ eTarget.exists) =>
        /\ ~eResult.threw
        /\ eResult.violations =
              IF ~StructuralRun(eTarget, eRules).threw
              THEN StructuralRun(eTarget, eRules).violations
              ELSE validateWithRegex(SplitLines(eTarget), eRules).violations

-----------------------------------------------------------------------------
(* Global/base files and component files.                                  *)

GlobalOrBaseNames ==
    {"base.rux", "rubric.rux", "design-system.rux", "globalspecs.rux",
     "designsystem.rux"}
IsGlobalOrBase(i) == ToLowerCase(ruxFiles[i].basename) \in GlobalOrBaseNames

Indices(seq) == {seq[k] : k \in 1..Len(seq)}

ModuleNameOf(i) ==
    IF ruxFiles[i].success THEN ruxFiles[i].ast.name
    ELSE ruxFiles[i].fallbackRules.moduleName

\* The base Rule Set once base.rux and globalspecs.rux are both dealt with.
BuiltBase ==
    IF baseRuxPath # 0 /\ globalSpecsPath # 0
    THEN PushAll(parseAndExtractRules(baseRuxPath),
                 parseAndExtractRules(globalSpecsPath))
    ELSE IF baseRuxPath # 0 THEN parseAndExtractRules(baseRuxPath)
    ELSE IF globalSpecsPath # 0 THEN parseAndExtractRules(globalSpecsPath)
    ELSE Null

\* C24: the files found are split, by lower-cased basename, into global/base
\* files and component files, each file in exactly one of the two; the Rule
\* Set being merged or validated is never that of a global/base file and no
\* violation is recorded for the module of one; and once any component has
\* been parsed the base Rule Set is complete.
C24_GlobalAndComponentFiles ==
    /\ Indices(foundMetaFiles) = {i \in 1..Len(ruxFiles) : IsGlobalOrBase(i)}
    /\ Indices(componentRuxFiles) = {i \in 1..Len(ruxFiles) : ~IsGlobalOrBase(i)}
    /\ rulesRef # 0 => ~IsGlobalOrBase(rulesRef)
    /\ \A k \in 1..Len(violations) :
          \A i \in 1..Len(ruxFiles) :
             IsGlobalOrBase(i) => violations[k].module # ModuleNameOf(i)
    /\ (\E i \in 1..Len(ruxFiles) : ~IsGlobalOrBase(i) /\ heap[i] # Null) =>
          /\ pc \notin {"base", "global"}
          /\ IF BuiltBase = Null THEN baseRules = 0
             ELSE baseRules # 0 /\ heap[baseRules] = BuiltBase

\* A finished run that found Rubric.RUX, Base.rux and globalspecs.rux and
\* recorded violations for a component.
C24_Witness ==
    /\ pc = "exited"
    /\ \E i \in 1..Len(ruxFiles) : ruxFiles[i].basename = "Rubric.RUX"
    /\ \E i \in 1..Len(ruxFiles) : ruxFiles[i].basename = "Base.rux"
    /\ globalSpecsPath # 0
    /\ violations # <<>>

-----------------------------------------------------------------------------
(* require pattern.accessibility.                                          *)

RequiresAccessibility(rs) ==
    \E k \in 1..Len(rs.constraints.require) :
        rs.constraints.require[k].pattern = S_accessibility

\* The lines of the opening elements that are not div and have no attribute
\* whose name starts with aria-, in source order.
UnlabelledElementLines(lines) ==
    SelectSeq([i \in 1..Len(lines) |-> i],
              LAMBDA i : /\ lines[i].kind = "jsx"
                         /\ lines[i].name # "div"
                         /\ ~\E a \in 1..Len(lines[i].attrs) :
                               StartsWith(lines[i].attrs[a], S_aria))

\* C25: with require pattern.accessibility and a target that parses, the
\* accessibility warnings are one for each opening element that is not div
\* and has no aria- attribute, each at its element's line, and no other.
C25_AccessibilityPerElement ==
    (/\ eResult # Null /\ ~eResult.threw /\ Parses(eTarget)
     /\ RequiresAccessibility(eRules)) =>
        LET found == SelectSeq(eResult.violations, LAMBDA v :
                        v.message.text =
                          "Missing accessibility attributes (pattern.accessibility)")
        IN /\ [k \in 1..Len(found) |-> found[k].line] =
                 UnlabelledElementLines(SplitLines(eTarget))
           /\ \A k \in 1..Len(found) : found[k].severity = "warning"

-----------------------------------------------------------------------------
(* Where the recovery pass takes a line to be.                             *)

\* Lines j..m that have an opening brace, less those that have a closing one.
BraceBalance(lines, j, m) ==
    Cardinality({k \in j..m : Includes(lines[k], <<"{">>)})
    - Cardinality({k \in j..m : Includes(lines[k], <<"}">>)})

\* Line n lies after the opening brace of a block of the given keyword and
\* before the brace that closes it.
BetweenBraces(lines, n, keyword) ==
    \E j \in 1..(n - 1) :
        /\ StartsWith(Trim(lines[j]), keyword)
        /\ Includes(lines[j], <<"{">>)
        /\ \A m \in j..(n - 1) : BraceBalance(lines, j, m) >= 1

\* C26: the recovery pass reports 'allow' is not valid in constraints block
\* only for a line between the braces of a constraints block.
C26_AllowOnlyInsideConstraints ==
    Recovered =>
        \A k \in 1..Len(RecoveryDiagnostics) :
            RecoveryDiagnostics[k].message =
                "'allow' is not valid in constraints block" =>
                    BetweenBraces(Split(tContent, "\n"),
                                  RecoveryDiagnostics[k].location.start.line,
                                  Chars("constraints"))

-----------------------------------------------------------------------------
(* The two shapes of a parse with recovery.                                *)

\* What parseAndExtractRules returns for the parse result.
RulesReturned(parseResult) ==
    IF ~parseResult.success THEN parseResult.fallbackRules
    ELSE extractRulesFromAST(parseResult.ast)

\* C27: a parse with recovery gives either success with a Module AST and no
\* errors, or failure with the strict parser's error first, the recovery
\* pass's diagnostics after it and a fallback Rule Set with every field; in
\* both cases parseAndExtractRules has a Rule Set to return.
C27_TwoShapes ==
    tResult # Null =>
        /\ \/ /\ tResult.success
              /\ DOMAIN tResult = {"success", "ast", "errors"}
              /\ tResult.ast.type = "Module"
              /\ tResult.errors = <<>>
           \/ /\ ~tResult.success
              /\ DOMAIN tResult = {"success", "errors", "fallbackRules"}
              /\ tResult.errors # <<>>
              /\ tResult.errors[1] = "strict parser error"
              /\ Tail(tResult.errors) =
                    findCommonSyntaxErrors(tContent, Split(tContent, "\n"))
              /\ tResult.fallbackRules # Null
              /\ HasAllFields(tResult.fallbackRules)
        /\ RulesReturned(tResult) # Null
        /\ HasAllFields(RulesReturned(tResult))

\* A text the strict parser rejects and the recovery pass has nothing to
\* say about: the strict error is the whole list.
C27_Witness ==
    /\ tResult # Null
    /\ ~tResult.success
    /\ Len(tResult.errors) = 1
    /\ tResult.fallbackRules # Null

-----------------------------------------------------------------------------
(* deny constraints and deniedOperations, whichever extractor ran.         *)

\* C28: in the Rule Set parseAndExtractRules returns for a specification
\* text, from the Rule Extractor or from the regex fallback extractor, the
\* pattern of every deny constraint that starts with io. or pattern. is
\* also in deniedOperations.
C28_OperationsInBothExtractors ==
    tResult # Null =>
        LET rs == RulesReturned(tResult) IN
        \A k \in 1..Len(rs.constraints.deny) :
            (/\ HasPattern(rs.constraints.deny[k])
             /\ IsOperationPattern(rs.constraints.deny[k].pattern)) =>
                SeqHas(rs.deniedOperations, rs.constraints.deny[k].pattern)

-----------------------------------------------------------------------------
(* allowedImports.                                                         *)

Allowed(path) == [path |-> path, alias |-> Null, exceptions |-> <<>>]

\* Other values the allowedImports of a Rule Set could have.
AllowedAlternatives ==
    {<<>>, <<Allowed(P_react)>>, <<Allowed(P_lodash_fp), Allowed(P_services_user)>>}

C29_Step ==
    /\ pc = "merge" =>
          heap'[rulesRef].allowedImports = heap[rulesRef].allowedImports
    /\ pc = "validate" =>
          LET rs == heap[rulesRef] IN
          \A allowed \in AllowedAlternatives :
              validateFile(rs.location, [rs EXCEPT !.allowedImports = allowed],
                           rs.moduleName)
              = validateFile(rs.location, rs, rs.moduleName)

\* C29: the step that merges the base leaves the component's allowedImports
\* as they are, and the step that validates the target gives the same
\* violations whatever the Rule Set's allowedImports are.
C29_AllowedImportsInert == [][C29_Step]_vars

\* Module Lod, which allows react, merged with a base that allows lodash.fp
\* and denies react, validated against a target that imports react: the
\* import is reported and the component's allowedImports are its own.
C29_Witness ==
    /\ pc = "loop" /\ ci > 1 /\ rulesRef # 0 /\ baseRules # 0
    /\ heap[baseRules].allowedImports = <<Allowed(P_lodash_fp)>>
    /\ heap[rulesRef].allowedImports = <<Allowed(P_react)>>
    /\ \E k \in 1..Len(violations) :
          /\ violations[k].type = "import"
          /\ violations[k].module = "Lod"
          /\ violations[k].message.args = <<P_react>>

=============================================================================
